---- MODULE Spec2Model ----
(***************************************************************************)
(* Model of the CODE lifecycle backend (capture -> organise -> do ->       *)
(* evaluate), its XP formulas and the habit log.                           *)
(*                                                                         *)
(* Every Convex mutation runs as one serialisable transaction, so each     *)
(* handler is one atomic action; a throw rolls the whole handler back.     *)
(* Time is counted in whole minutes (Date.now() / 60000).  The bookkeeping  *)
(* timestamps createdAt / updatedAt / capturedAt and the free-text fields  *)
(* are written by the handlers but read by none of them; they are left     *)
(* out of the documents.                                                   *)
(***************************************************************************)
EXTENDS Integers, Sequences, FiniteSets, TLC

\* ------------------------------------------------------------------ bounds
MaxUsers == 1
MaxActivities == 1
MaxHabits == 1
MaxOps == 5
MaxNow == 61
MaxGoals == 3
MaxBotGoals == 7
MaxLater == 91
MaxTagLen == 6
MaxStreak == 84
MaxPresses == 3
SweepUsers == 2

\* An optional field that was never written (JavaScript undefined): Unset for
\* a number, NoString for a string or a boolean ("true" / "false").
Unset == -1
NoString == "undefined"
\* A well-formed users id that no user document carries.
GhostUserId == MaxUsers + 1
\* The clock value at start-up and the clock steps taken between calls.
StartNow == 1
TimeSteps == {60}

\* JavaScript truthiness of an optional number.
Truthy(x) == x # Unset /\ x # 0

Max2(a, b) == IF a >= b THEN a ELSE b
Min2(a, b) == IF a <= b THEN a ELSE b

\* ------------------------------------------------------------ convex/lib/xp
CATEGORY_MULTIPLIER_x4 ==
  [c \in {"main-quest", "side-quest", "fake-boss", "sleeping-dragon", "void-filler"} |->
     CASE c = "main-quest" -> 8
       [] c = "side-quest" -> 5
       [] c = "fake-boss" -> 4
       [] c = "sleeping-dragon" -> 6
       [] c = "void-filler" -> 2]

HORIZON_BONUS ==
  [h \in {"today", "week", "month", "quarter", "annum", "someday"} |->
     CASE h = "today" -> 5
       [] h = "week" -> 3
       [] h = "month" -> 2
       [] h = "quarter" -> 1
       [] h = "annum" -> 0
       [] h = "someday" -> 0]

\* The letters used in the strings here that occur in both cases; every other
\* character used has no upper-case form.
toUpperCase(ch) ==
  CASE ch = "i" -> "I" [] ch = "n" -> "N" [] ch = "c" -> "C"
    [] ch = "u" -> "U" [] ch = "p" -> "P" [] ch = "x" -> "X"
    [] ch = "m" -> "M"
    [] ch = "a" -> "A" [] ch = "e" -> "E" [] ch = "g" -> "G"
    [] ch = "h" -> "H" [] ch = "l" -> "L" [] ch = "o" -> "O"
    [] ch = "r" -> "R" [] ch = "s" -> "S" [] ch = "t" -> "T"
    [] ch = "v" -> "V"
    [] OTHER -> ch

toLowerCase(ch) ==
  CASE ch = "I" -> "i" [] ch = "N" -> "n" [] ch = "C" -> "c"
    [] ch = "U" -> "u" [] ch = "P" -> "p" [] ch = "X" -> "x"
    [] ch = "M" -> "m"
    [] ch = "A" -> "a" [] ch = "E" -> "e" [] ch = "G" -> "g"
    [] ch = "H" -> "h" [] ch = "L" -> "l" [] ch = "O" -> "o"
    [] ch = "R" -> "r" [] ch = "S" -> "s" [] ch = "T" -> "t"
    [] ch = "V" -> "v"
    [] OTHER -> ch

\* A string is a sequence of one-character strings.
slice5_whole(s) == s

slice5(s) == SubSeq(s, 1, Min2(5, Len(s)))

parseIncupScore(incup) ==
  IF Len(incup) = 0 THEN 0
  ELSE Cardinality({i \in DOMAIN slice5(incup) :
                      /\ incup[i] = toUpperCase(incup[i])
                      /\ incup[i] # toLowerCase(incup[i])})

computeCaptureXp(hasLink) ==
  LET base == 10
      linkBonus == IF hasLink THEN 5 ELSE 0
  IN base + linkBonus

\* Math.round(x) for x = n/d with d > 0 is floor(x + 1/2).
RoundDiv(n, d) == (2 * n + d) \div (2 * d)

computeOrganiseXp(input) ==
  LET base == 20
      categoryMult4 == CATEGORY_MULTIPLIER_x4[input.category]
      horizonBonus == HORIZON_BONUS[input.horizon]
      incupBonus == parseIncupScore(input.incup) * 2
      goalBonus == IF input.hasGoal THEN 5 ELSE 0
      deadlineBonus == IF input.hasDeadline THEN 3 ELSE 0
      estBonus == IF input.hasEstMinutes THEN 2 ELSE 0
      blockPenalty == IF input.mentalBlock THEN -5 ELSE 0
      raw4 == base * categoryMult4
              + 4 * (horizonBonus + incupBonus + goalBonus + deadlineBonus
                     + estBonus + blockPenalty)
  IN Max2(5, RoundDiv(raw4, 4))

\* ratio = actualMinutes / estMinutes; ratio <= 0.8
underEstimate_inverted(actualMinutes, estMinutes) == 5 * actualMinutes >= 4 * estMinutes

underEstimate_within(actualMinutes, estMinutes) == actualMinutes <= estMinutes

underEstimate(actualMinutes, estMinutes) == 5 * actualMinutes <= 4 * estMinutes

\* latePenalty = min(0.5, overHours * 0.05) = min(600, overMinutes) / 1200.
\* The minutes late that count: Math.min(0.5, overHours * 0.05) stops growing
\* at ten hours.
cappedOver_uncapped(overMinutes) == overMinutes

cappedOver(overMinutes) == Min2(600, overMinutes)

computeDoneXp(input) ==
  LET isLate == input.deadline # Unset /\ input.completedAt > input.deadline
      over == IF isLate THEN cappedOver(input.completedAt - input.deadline) ELSE 0
      blockBonus == IF input.mentalBlock THEN 10 ELSE 0
      timed == /\ input.actualMinutes # Unset
               /\ input.estMinutes # Unset
               /\ input.estMinutes > 0
      fast == timed /\ underEstimate(input.actualMinutes, input.estMinutes) /\ ~isLate
      within == timed /\ input.actualMinutes <= input.estMinutes
      speedBonus == IF fast THEN 15 ELSE IF within THEN 5 ELSE 0
      chrysolite == IF fast THEN 1 ELSE 0
      \* base * (1 - latePenalty) + blockBonus + speedBonus, over 2400
      num == 3 * input.organiseXp * (1200 - over) + 2400 * (blockBonus + speedBonus)
  IN [doneXp |-> Max2(1, RoundDiv(num, 2400)),
      isLate |-> isLate,
      chrysolite |-> chrysolite]

computeEvaluateXp_unfloored(input) ==
  LET base == RoundDiv(input.doneXp, 5)
      moodBonus == IF input.emotionDelta > 0
                   THEN Min2(10, input.emotionDelta * 3) ELSE 0
  IN base + moodBonus

computeEvaluateXp(input) ==
  LET base == RoundDiv(input.doneXp, 5)
      moodBonus == IF input.emotionDelta > 0
                   THEN Min2(10, input.emotionDelta * 3) ELSE 0
  IN Max2(5, base + moodBonus)

Emotions == {"joyful", "excited", "hopeful", "calm", "curious", "neutral",
             "bored", "anxious", "frustrated", "overwhelmed", "defeated"}

EMOTION_SCORE ==
  [e \in Emotions |->
     CASE e = "joyful" -> 10 [] e = "excited" -> 9 [] e = "hopeful" -> 8
       [] e = "calm" -> 7 [] e = "curious" -> 6 [] e = "neutral" -> 5
       [] e = "bored" -> 4 [] e = "anxious" -> 3 [] e = "frustrated" -> 2
       [] e = "overwhelmed" -> 1 [] e = "defeated" -> 0]

emotionScore(emotion) ==
  IF emotion = NoString THEN 5
  ELSE IF emotion \in Emotions THEN EMOTION_SCORE[emotion] ELSE 5

computeEmotionDelta(before, after) == emotionScore(after) - emotionScore(before)

HABIT_XP ==
  [d \in {"easy", "medium", "hard", "peak"} |->
     CASE d = "easy" -> 5 [] d = "medium" -> 10 [] d = "hard" -> 20 [] d = "peak" -> 35]

\* streakMult = min(2.0, 1.0 + floor(streak / 7) * 0.1), kept in tenths.
streakMult10_uncapped(currentStreak) == 10 + (currentStreak \div 7)

streakMult10(currentStreak) == Min2(20, 10 + (currentStreak \div 7))

computeHabitXp(difficulty, currentStreak) ==
  LET base == HABIT_XP[difficulty]
  IN RoundDiv(base * streakMult10(currentStreak), 10)

\* ----------------------------------------------------------- convex/lib/ids
Digits == <<"0", "1", "2", "3", "4", "5", "6", "7", "8", "9">>

RECURSIVE String(_)
String(n) == IF n < 10 THEN <<Digits[n + 1]>>
             ELSE String(n \div 10) \o <<Digits[(n % 10) + 1]>>

RECURSIVE padStart(_, _, _)
padStart(s, width, fill) == IF Len(s) >= width THEN s
                            ELSE padStart(<<fill>> \o s, width, fill)

pad(n) == padStart(String(n), 4, "0")

DigitValue(ch) == CHOOSE d \in 0..9 : Digits[d + 1] = ch
IsDigit(ch) == \E d \in 0..9 : Digits[d + 1] = ch

\* parseInt(s, 10): the longest leading run of digits, NaN when it is empty.
RECURSIVE parseInt(_, _)
parseInt(s, acc) ==
  IF Len(s) = 0 \/ ~IsDigit(Head(s)) THEN acc
  ELSE parseInt(Tail(s), IF acc = Unset THEN DigitValue(Head(s))
                         ELSE 10 * acc + DigitValue(Head(s)))

\* An id is the pair of its prefix and the text after the last "-".
extractNum(id) ==
  LET n == parseInt(id.suffix, Unset)
  IN IF n = Unset THEN 0 ELSE n

RECURSIVE MaxNum(_, _)
MaxNum(ids, acc) == IF Len(ids) = 0 THEN acc
                    ELSE MaxNum(Tail(ids), Max2(acc, extractNum(Head(ids))))

\* ------------------------------------------------------------------- state
VARIABLES
  users,        \* table users: sequence of documents, _id = position
  activities,   \* table activities
  habits,       \* table habits
  now,          \* Date.now() in minutes
  result,       \* outcome of the last mutation call
  awarded,      \* history: per activity and stage, how often the stage score
                \* was added to an owner document
  habitXpSum,   \* history: per user id, sum of the habitXp values returned
  ops,          \* number of successful lifecycle transitions so far
  goals,        \* table goals; a deleted document keeps its _id (present = FALSE)
  issued,       \* history: every goal id number nextGoalId returned, per owner
  settings,     \* users.settings, by user _id (interval, timestamps, botState)
  offered,      \* per Telegram user: the inline buttons the bot has sent so far
  sweep,        \* per Telegram user: where the reminder sweep stands
  event,        \* the inbound update the last step handled, none when the
                \* step was no handler of the bot, and the messages it sent
  call          \* a call of a scoring function: its arguments and, once it
                \* has returned, its value

vars == <<users, activities, habits, now, result, awarded, habitXpSum, ops,
          goals, issued, settings, offered, sweep, event, call>>

\* What the bot keeps beside the tables the mutations write.
botVars == <<settings, offered, sweep, event>>

Stages == {"capture", "organise", "done", "evaluate"}
UserIds == 1..(MaxUsers + 1)
ActivityDocIds == 1..MaxActivities
HabitDocIds == 1..MaxHabits

\* ctx.db.get(id): the document, or null when it does not exist.
HasUser(id) == id \in DOMAIN users
HasActivity(id) == id \in DOMAIN activities
HasHabit(id) == id \in DOMAIN habits

TelegramIds == 1..MaxUsers

\* ------------------------------------------------- src/flows.js: the state
LIFE_AREAS == <<"spiritual", "physical", "mental", "financial", "social", "emotional">>

Areas == {LIFE_AREAS[i] : i \in DOMAIN LIFE_AREAS}

\* A text is a sequence of one-character strings; NoText is no text at all
\* (undefined), NoId no goal id.
NoText == <<"undefined">>
NoId == [prefix |-> NoString, suffix |-> <<>>]

\* areaData: per life area the answers given so far.
NoAnswers == [ideal |-> NoText, current |-> NoText, obstacle |-> NoText]
NoAreaData == [a \in Areas |-> NoAnswers]

\* The parsed botState; a key the JSON does not hold reads as NoString, NoText,
\* NoId, Unset, 0 or the empty list.
NoState ==
  [flow |-> NoString, step |-> NoString, waiting4Reply |-> NoString,
   convexUserId |-> 0, areaIndex |-> Unset, areaData |-> NoAreaData,
   queue |-> <<>>, qIndex |-> Unset, goals |-> <<>>,
   pendingGoalId |-> NoId, pendingIncup |-> NoString,
   incupSelected |-> <<>>, pendingArea |-> NoString,
   pendingHorizon |-> NoString, pendingType |-> NoString,
   habitName |-> NoText, habitLifeArea |-> NoString]

\* settings: {} of a fresh user document
NoSettings ==
  [organizeIntervalMinutes |-> Unset, lastOrganizedAt |-> Unset,
   chatId |-> NoString, botState |-> NoState]

\* An inbound update: a command or text message, or a button press (callback
\* data split at its last colon into data and arg); sent are the messages
\* the step sent to the chat, each named by the callback data of its buttons
\* or by what it asks or tells.
NoEvent == [from |-> 0, kind |-> "none", data |-> NoString, arg |-> NoString,
            text |-> NoText, sent |-> {}]

\* No scoring function has been called.
NoCall == [fn |-> "none", args |-> <<>>, done |-> FALSE, value |-> 0]

Ok(op, doc) == [op |-> op, doc |-> doc, ok |-> TRUE, err |-> "none"]
Err(op, doc, msg) == [op |-> op, doc |-> doc, ok |-> FALSE, err |-> msg]

\* if (user) await ctx.db.patch(userId, { totalXp: user.totalXp + xp })
AwardXp_dropped(userId, xp) == users

AwardXp(userId, xp) ==
  IF HasUser(userId)
  THEN [users EXCEPT ![userId].totalXp = @ + xp]
  ELSE users

\* Every table empty, nothing sent, nothing handled.
EmptyStore ==
  /\ users = <<>>
  /\ activities = <<>>
  /\ habits = <<>>
  /\ now = StartNow
  /\ result = Ok("init", 0)
  /\ awarded = [d \in ActivityDocIds |-> [s \in Stages |-> 0]]
  /\ habitXpSum = [u \in UserIds |-> 0]
  /\ ops = 0
  /\ goals = <<>>
  /\ issued = <<>>
  /\ settings = <<>>
  /\ offered = [t \in TelegramIds |-> {}]
  /\ sweep = [t \in TelegramIds |-> "idle"]
  /\ event = NoEvent

Init == EmptyStore /\ call = NoCall

\* The clock moves between calls.
Tick ==
  /\ \E d \in TimeSteps : now + d <= MaxNow /\ now' = now + d
  /\ UNCHANGED <<users, activities, habits, result, awarded, habitXpSum, ops,
                 goals, issued>>

\* ---------------------------------------------------------- convex/users.ts
InitialHp == 100

ensureUser(telegramId) ==
  /\ IF \E i \in DOMAIN users : users[i].telegramId = telegramId
     THEN LET existing == CHOOSE i \in DOMAIN users : users[i].telegramId = telegramId
          IN /\ users' = users
             /\ settings' = settings
             /\ result' = Ok("ensureUser", existing)
     ELSE /\ Len(users) < MaxUsers
          /\ users' = Append(users, [telegramId |-> telegramId, totalXp |-> 0,
                                     chrysolite |-> 0, hp |-> InitialHp])
          /\ settings' = Append(settings, NoSettings)
          /\ result' = Ok("ensureUser", Len(users) + 1)
  /\ UNCHANGED <<activities, habits, now, awarded, habitXpSum, ops,
                 goals, issued>>

\* ----------------------------------------------------- convex/activities.ts
RECURSIVE IdsOf(_, _)
IdsOf(docs, userId) ==
  IF Len(docs) = 0 THEN <<>>
  ELSE (IF Head(docs).userId = userId THEN <<Head(docs).humanId>> ELSE <<>>)
       \o IdsOf(Tail(docs), userId)

nextActivityId(userId) ==
  LET max == MaxNum(IdsOf(activities, userId), 0)
  IN [prefix |-> "A", suffix |-> pad(max + 1)]

nextHabitId(userId) ==
  LET max == MaxNum(IdsOf(habits, userId), 0)
  IN [prefix |-> "H", suffix |-> pad(max + 1)]

\* The document inserted by captureActivity.
capturedDoc(userId, activityId, hasLink, captureXp) ==
  [userId |-> userId, humanId |-> activityId, link |-> hasLink,
   status |-> "captured",
   goalId |-> NoString, incup |-> <<>>, lifeArea |-> NoString,
   horizon |-> NoString, exeType |-> NoString, category |-> NoString,
   estMinutes |-> Unset, deadline |-> Unset, mentalBlock |-> NoString,
   feelingBefore |-> NoString,
   sessionStart |-> Unset, actualMinutes |-> Unset, completedAt |-> Unset,
   feelingAfter |-> NoString, emotionDelta |-> Unset,
   captureXp |-> captureXp, organiseXp |-> Unset, doneXp |-> Unset,
   evaluateXp |-> Unset, totalXp |-> captureXp, chrysolite |-> Unset]

captureActivity(userId, hasLink) ==
  /\ Len(activities) < MaxActivities
  /\ LET activityId == nextActivityId(userId)
         captureXp == computeCaptureXp(hasLink)
         doc == Len(activities) + 1
     IN /\ activities' = Append(activities,
                                capturedDoc(userId, activityId, hasLink, captureXp))
        /\ users' = AwardXp(userId, captureXp)
        /\ awarded' = IF HasUser(userId)
                      THEN [awarded EXCEPT ![doc]["capture"] = @ + 1] ELSE awarded
        /\ result' = Ok("capture", doc)
  /\ UNCHANGED <<habits, now, habitXpSum, ops, goals, issued>>

\* v.union(...) of the organizeActivity args: the values the validator admits.
OrganiseLifeAreas == {"health", "wealth", "relationships", "self", "career",
                      "fun", "environment", "spirituality"}

organizeActivity(activityDocId, args) ==
  /\ ops < MaxOps
  /\ IF args.lifeArea \notin OrganiseLifeAreas
     THEN /\ result' = Err("organize", activityDocId, "ArgumentValidationError")
          /\ UNCHANGED <<users, activities, awarded, ops>>
     ELSE IF ~HasActivity(activityDocId)
     THEN /\ result' = Err("organize", activityDocId, "Activity not found")
          /\ UNCHANGED <<users, activities, awarded, ops>>
     ELSE LET activity == activities[activityDocId]
              mentalBlock == IF args.mentalBlock = NoString THEN "false"
                             ELSE args.mentalBlock
              orgXp == computeOrganiseXp(
                         [category |-> args.category, horizon |-> args.horizon,
                          incup |-> args.incup,
                          hasGoal |-> args.goalId # NoString /\ args.goalId # "",
                          hasDeadline |-> Truthy(args.deadline),
                          hasEstMinutes |-> Truthy(args.estMinutes),
                          mentalBlock |-> mentalBlock = "true"])
          IN /\ activities' = [activities EXCEPT ![activityDocId] =
                   [@ EXCEPT !.goalId = args.goalId, !.incup = args.incup,
                             !.lifeArea = args.lifeArea, !.horizon = args.horizon,
                             !.exeType = args.exeType, !.category = args.category,
                             !.deadline = args.deadline, !.estMinutes = args.estMinutes,
                             !.mentalBlock = mentalBlock,
                             !.feelingBefore = args.feelingBefore,
                             !.status = "organized",
                             !.organiseXp = orgXp,
                             !.totalXp = activity.totalXp + orgXp]]
             /\ users' = AwardXp(activity.userId, orgXp)
             /\ awarded' = IF HasUser(activity.userId)
                           THEN [awarded EXCEPT ![activityDocId]["organise"] = @ + 1]
                           ELSE awarded
             /\ result' = Ok("organize", activityDocId)
             /\ ops' = ops + 1
  /\ UNCHANGED <<habits, now, habitXpSum, goals, issued>>

\* ctx.db.patch throws when the document does not exist.
startFocusSession(activityDocId) ==
  /\ ops < MaxOps
  /\ IF ~HasActivity(activityDocId)
     THEN /\ result' = Err("startFocus", activityDocId, "Document not found")
          /\ UNCHANGED <<activities, ops>>
     ELSE /\ activities' = [activities EXCEPT ![activityDocId] =
                   [@ EXCEPT !.sessionStart = now, !.status = "in-progress"]]
          /\ result' = Ok("startFocus", activityDocId)
          /\ ops' = ops + 1
  /\ UNCHANGED <<users, habits, now, awarded, habitXpSum, goals, issued>>

HpPenalty == 10

\* hp: doneResult.isLate ? Math.max(0, user.hp - 10) : user.hp
hpAfterFinish_unfloored(hp, isLate) == IF isLate THEN hp - HpPenalty ELSE hp

hpAfterFinish_always(hp, isLate) == Max2(0, hp - HpPenalty)

hpAfterFinish(hp, isLate) == IF isLate THEN Max2(0, hp - HpPenalty) ELSE hp

\* if (!activity || !activity.sessionStart) throw new Error("No active session")
noActiveSession(activityDocId) ==
  ~HasActivity(activityDocId) \/ ~Truthy(activities[activityDocId].sessionStart)

finishFocusSession(activityDocId) ==
  /\ ops < MaxOps
  /\ IF noActiveSession(activityDocId)
     THEN /\ result' = Err("finishFocus", activityDocId, "No active session")
          /\ UNCHANGED <<users, activities, awarded, ops>>
     ELSE LET activity == activities[activityDocId]
              actualMinutes == now - activity.sessionStart
              doneResult == computeDoneXp(
                 [organiseXp |-> IF activity.organiseXp = Unset THEN 0
                                 ELSE activity.organiseXp,
                  completedAt |-> now, deadline |-> activity.deadline,
                  mentalBlock |-> activity.mentalBlock = "true",
                  actualMinutes |-> actualMinutes,
                  estMinutes |-> activity.estMinutes])
              status == IF doneResult.isLate THEN "complete-late" ELSE "complete"
          IN /\ activities' = [activities EXCEPT ![activityDocId] =
                   [@ EXCEPT !.actualMinutes = actualMinutes, !.completedAt = now,
                             !.status = status, !.sessionStart = Unset,
                             !.doneXp = doneResult.doneXp,
                             !.totalXp = activity.totalXp + doneResult.doneXp,
                             !.chrysolite = (IF activity.chrysolite = Unset THEN 0
                                             ELSE activity.chrysolite)
                                            + doneResult.chrysolite]]
             /\ users' = IF HasUser(activity.userId)
                         THEN [users EXCEPT ![activity.userId] =
                                 [@ EXCEPT !.totalXp = @ + doneResult.doneXp,
                                           !.chrysolite = @ + doneResult.chrysolite,
                                           !.hp = hpAfterFinish(@, doneResult.isLate)]]
                         ELSE users
             /\ awarded' = IF HasUser(activity.userId)
                           THEN [awarded EXCEPT ![activityDocId]["done"] = @ + 1]
                           ELSE awarded
             /\ result' = Ok("finishFocus", activityDocId)
             /\ ops' = ops + 1
  /\ UNCHANGED <<habits, now, habitXpSum, goals, issued>>

evaluateActivity(activityDocId, feelingAfter) ==
  /\ ops < MaxOps
  /\ IF ~HasActivity(activityDocId) \/ ~Truthy(activities[activityDocId].doneXp)
     THEN /\ result' = Err("evaluate", activityDocId, "Activity not completed")
          /\ UNCHANGED <<users, activities, awarded, ops>>
     ELSE LET activity == activities[activityDocId]
              emotionDelta == computeEmotionDelta(activity.feelingBefore, feelingAfter)
              evalXp == computeEvaluateXp([doneXp |-> activity.doneXp,
                                           emotionDelta |-> emotionDelta])
          IN /\ activities' = [activities EXCEPT ![activityDocId] =
                   [@ EXCEPT !.feelingAfter = feelingAfter,
                             !.emotionDelta = emotionDelta,
                             !.evaluateXp = evalXp,
                             !.totalXp = activity.totalXp + evalXp]]
             /\ users' = AwardXp(activity.userId, evalXp)
             /\ awarded' = IF HasUser(activity.userId)
                           THEN [awarded EXCEPT ![activityDocId]["evaluate"] = @ + 1]
                           ELSE awarded
             /\ result' = Ok("evaluate", activityDocId)
             /\ ops' = ops + 1
  /\ UNCHANGED <<habits, now, habitXpSum, goals, issued>>

\* --------------------------------------------------------- convex/habits.ts
\* v.union(...) of the createHabit args: the values the validator admits.
HabitLifeAreas == {"health", "wealth", "relationships", "self", "career",
                   "fun", "environment", "spirituality"}

createHabit(userId, lifeArea) ==
  /\ IF lifeArea \notin HabitLifeAreas
     THEN /\ result' = Err("createHabit", 0, "ArgumentValidationError")
          /\ UNCHANGED habits
     ELSE /\ Len(habits) < MaxHabits
          /\ habits' = Append(habits,
                [userId |-> userId, humanId |-> nextHabitId(userId),
                 currentStreak |-> 0, maxStreak |-> 0, emotionDelta |-> Unset])
          /\ result' = Ok("createHabit", Len(habits) + 1)
  /\ UNCHANGED <<users, activities, now, awarded, habitXpSum, ops,
                 goals, issued>>

\* xp.computeHabitXp({ difficulty: args.difficultyLevel, currentStreak: newStreak })
logHabitXp_stale(habit, difficultyLevel) ==
  computeHabitXp(difficultyLevel, habit.currentStreak)

logHabitXp(habit, difficultyLevel) ==
  computeHabitXp(difficultyLevel, habit.currentStreak + 1)

\* maxStreak: Math.max(newStreak, habit.maxStreak)
maxStreakAfter_kept(newStreak, maxStreak) == maxStreak

maxStreakAfter(newStreak, maxStreak) == Max2(newStreak, maxStreak)

logHabitSession(habitDocId, difficultyLevel, feelingBefore, feelingAfter) ==
  /\ ops < MaxOps
  /\ IF ~HasHabit(habitDocId)
     THEN /\ result' = Err("logHabit", habitDocId, "Habit not found")
          /\ UNCHANGED <<users, habits, habitXpSum, ops>>
     ELSE LET habit == habits[habitDocId]
              newStreak == habit.currentStreak + 1
              habitXp == logHabitXp(habit, difficultyLevel)
              emotionDelta == computeEmotionDelta(feelingBefore, feelingAfter)
          IN /\ habits' = [habits EXCEPT ![habitDocId] =
                   [@ EXCEPT !.currentStreak = newStreak,
                             !.maxStreak = maxStreakAfter(newStreak, habit.maxStreak),
                             !.emotionDelta = emotionDelta]]
             /\ users' = AwardXp(habit.userId, habitXp)
             /\ habitXpSum' = [habitXpSum EXCEPT ![habit.userId] = @ + habitXp]
             /\ result' = Ok("logHabit", habitDocId)
             /\ ops' = ops + 1
  /\ UNCHANGED <<activities, now, awarded, goals, issued>>

\* ---------------------------------------------------------- convex/goals.ts
HasGoal(id) == id \in DOMAIN goals /\ goals[id].present

\* The by_user index query: the ids of the stored documents of the owner.
RECURSIVE GoalIdsOf(_, _)
GoalIdsOf(docs, userId) ==
  IF Len(docs) = 0 THEN <<>>
  ELSE (IF Head(docs).present /\ Head(docs).userId = userId
        THEN <<Head(docs).humanId>> ELSE <<>>)
       \o GoalIdsOf(Tail(docs), userId)

\* nextGoalId(ctx, userId), ctx.db being the table docs.
nextGoalId(docs, userId) ==
  LET max == MaxNum(GoalIdsOf(docs, userId), 0)
  IN [prefix |-> "G", suffix |-> pad(max + 1)]

GoalDoc(userId, goalId, g) ==
  [userId |-> userId, humanId |-> goalId, title |-> g.title,
   description |-> NoString, lifeArea |-> g.lifeArea, horizon |-> g.horizon,
   status |-> "active", category |-> g.category, present |-> TRUE]

\* for (const g of args.goals) { goalId = await nextGoalId(...); insert(...) }
RECURSIVE insertGoals_hoisted(_, _, _, _)
insertGoals_hoisted(docs, userId, gs, firstId) ==
  IF Len(gs) = 0 THEN docs
  ELSE insertGoals_hoisted(Append(docs, GoalDoc(userId, firstId, Head(gs))),
                           userId, Tail(gs), firstId)

RECURSIVE insertGoals(_, _, _, _)
insertGoals(docs, userId, gs, firstId) ==
  IF Len(gs) = 0 THEN docs
  ELSE LET inserted == Append(docs, GoalDoc(userId, firstId, Head(gs)))
       IN insertGoals(inserted, userId, Tail(gs), nextGoalId(inserted, userId))

\* The id numbers the documents docs[from + 1 .. Len(docs)] carry, in order.
IssuedFrom(docs, from) ==
  [i \in 1..(Len(docs) - from) |->
     [userId |-> docs[from + i].userId, num |-> extractNum(docs[from + i].humanId)]]

\* The mutation, the table holding at most max documents.
createGoalsWithin(userId, gs, max) ==
  /\ Len(goals) + Len(gs) <= max
  /\ goals' = insertGoals(goals, userId, gs, nextGoalId(goals, userId))
  /\ issued' = issued \o IssuedFrom(goals', Len(goals))
  /\ result' = Ok("createGoals", Len(goals) + 1)
  /\ UNCHANGED <<users, activities, habits, now, awarded, habitXpSum, ops>>

createGoalsFromGapAnalysis(userId, gs) == createGoalsWithin(userId, gs, MaxGoals)

createGoal(userId, g) ==
  /\ Len(goals) < MaxGoals
  /\ LET goalId == nextGoalId(goals, userId)
     IN /\ goals' = Append(goals, GoalDoc(userId, goalId, g))
        /\ issued' = Append(issued, [userId |-> userId, num |-> extractNum(goalId)])
  /\ result' = Ok("createGoal", Len(goals) + 1)
  /\ UNCHANGED <<users, activities, habits, now, awarded, habitXpSum, ops>>

\* if (fields.x !== undefined) patch.x = fields.x
Patched(old, new) == IF new = NoString THEN old ELSE new

\* ctx.db.patch throws when the document does not exist.
updateGoal_scores(goalDocId, fields) ==
  /\ IF ~HasGoal(goalDocId)
     THEN /\ result' = Err("updateGoal", goalDocId, "Document not found")
          /\ UNCHANGED <<goals, users>>
     ELSE /\ goals' = [goals EXCEPT ![goalDocId] =
                 [@ EXCEPT !.title = Patched(@, fields.title),
                           !.description = Patched(@, fields.description),
                           !.horizon = Patched(@, fields.horizon),
                           !.status = Patched(@, fields.status),
                           !.category = Patched(@, fields.category)]]
          /\ users' = IF fields.status = "completed"
                      THEN AwardXp(goals[goalDocId].userId, 10) ELSE users
          /\ result' = Ok("updateGoal", goalDocId)
  /\ UNCHANGED <<activities, habits, now, awarded, habitXpSum, ops, issued>>

updateGoal(goalDocId, fields) ==
  /\ IF ~HasGoal(goalDocId)
     THEN /\ result' = Err("updateGoal", goalDocId, "Document not found")
          /\ UNCHANGED goals
     ELSE /\ goals' = [goals EXCEPT ![goalDocId] =
                 [@ EXCEPT !.title = Patched(@, fields.title),
                           !.description = Patched(@, fields.description),
                           !.horizon = Patched(@, fields.horizon),
                           !.status = Patched(@, fields.status),
                           !.category = Patched(@, fields.category)]]
          /\ result' = Ok("updateGoal", goalDocId)
  /\ UNCHANGED <<users, activities, habits, now, awarded, habitXpSum, ops, issued>>

\* The document store removes a goal document; its _id is never given again.
deleteGoal(goalDocId) ==
  /\ HasGoal(goalDocId)
  /\ goals' = [goals EXCEPT ![goalDocId].present = FALSE]
  /\ result' = Ok("deleteGoal", goalDocId)
  /\ UNCHANGED <<users, activities, habits, now, awarded, habitXpSum, ops, issued>>

\* ------------------------------------------------------------------ inputs
GoalDocIds == 1..MaxGoals

\* v.id("users"): any id of table users, whether or not the document exists yet.
GoalOwners == 1..MaxUsers

GoalInputs ==
  { [title |-> "run", lifeArea |-> "physical", horizon |-> "annum",
     category |-> "main-quest"],
    [title |-> "save", lifeArea |-> "financial", horizon |-> "quarter",
     category |-> "sleeping-dragon"] }

RunGoal == CHOOSE g \in GoalInputs : g.title = "run"
SaveGoal == CHOOSE g \in GoalInputs : g.title = "save"

GoalBatches == { <<RunGoal>>, <<RunGoal, SaveGoal>> }

NoUpdate ==
  [title |-> NoString, description |-> NoString, horizon |-> NoString,
   status |-> NoString, category |-> NoString]

UpdateInputs ==
  { [NoUpdate EXCEPT !.status = "completed"],
    [NoUpdate EXCEPT !.title = "walk", !.description = "daily",
                     !.horizon = "week", !.category = "side-quest"] }

CaptureOwners == (DOMAIN users) \cup {GhostUserId}

\* An estimate of one clock step and no deadline.
PlainInput ==
  [goalId |-> NoString, incup |-> <<>>, lifeArea |-> "health",
   horizon |-> "someday", exeType |-> "task", category |-> "void-filler",
   deadline |-> Unset, estMinutes |-> 60, mentalBlock |-> NoString,
   feelingBefore |-> NoString]

\* A deadline half a clock step after start-up and a generous estimate.
DeadlineInput ==
  [goalId |-> "G-0001", incup |-> <<"I", "i", "C", "U", "p">>, lifeArea |-> "self",
   horizon |-> "today", exeType |-> "task", category |-> "main-quest",
   deadline |-> 31, estMinutes |-> 100, mentalBlock |-> "true",
   feelingBefore |-> "defeated"]

OrganiseInputs ==
  { PlainInput, DeadlineInput,
    [goalId |-> NoString, incup |-> <<>>, lifeArea |-> "spiritual",
     horizon |-> "week", exeType |-> "task", category |-> "side-quest",
     deadline |-> Unset, estMinutes |-> Unset, mentalBlock |-> "false",
     feelingBefore |-> NoString] }

EvaluateInputs == {"joyful", "bored"}
HabitLogInputs == {"peak"}

\* A mutation the client calls directly, or the clock: the bot's variables
\* other than the settings of a user document just inserted stay as they are.
Api(A) == A /\ UNCHANGED <<settings, offered, sweep, event, call>>

Next ==
  \/ Api(Tick)
  \/ \E t \in 1..MaxUsers : ensureUser(t) /\ UNCHANGED <<offered, sweep, event, call>>
  \/ \E u \in CaptureOwners, l \in BOOLEAN : Api(captureActivity(u, l))
  \/ \E a \in ActivityDocIds, args \in OrganiseInputs : Api(organizeActivity(a, args))
  \/ \E a \in ActivityDocIds : Api(startFocusSession(a))
  \/ \E a \in ActivityDocIds : Api(finishFocusSession(a))
  \/ \E a \in ActivityDocIds, f \in EvaluateInputs : Api(evaluateActivity(a, f))
  \/ \E u \in CaptureOwners : Api(createHabit(u, "health"))
  \/ \E h \in HabitDocIds, d \in HabitLogInputs :
        Api(logHabitSession(h, d, NoString, NoString))

Spec == Init /\ [][Next]_vars

\* ------------------------------------------------- a database with history
\* The store outlives the process. LongRun is the store after ensureUser(1),
\* captureActivity(1, FALSE), organizeActivity(1, DeadlineInput), one clock
\* step past the deadline, LateRuns rounds of startFocusSession(1) and
\* finishFocusSession(1), createHabit(1) and HabitRuns calls of
\* logHabitSession(1, "peak"), every value computed as the handlers compute it.
LateRuns == 9
HabitRuns == 6

RECURSIVE HabitRunXp(_)
HabitRunXp(n) == IF n = 0 THEN 0 ELSE HabitRunXp(n - 1) + computeHabitXp("peak", n)

LongRunNow == StartNow + 60

LongRunOrganiseXp ==
  computeOrganiseXp([category |-> DeadlineInput.category,
                     horizon |-> DeadlineInput.horizon,
                     incup |-> DeadlineInput.incup, hasGoal |-> TRUE,
                     hasDeadline |-> TRUE, hasEstMinutes |-> TRUE,
                     mentalBlock |-> TRUE])

LongRunDone ==
  computeDoneXp([organiseXp |-> LongRunOrganiseXp, completedAt |-> LongRunNow,
                 deadline |-> DeadlineInput.deadline, mentalBlock |-> TRUE,
                 actualMinutes |-> 0, estMinutes |-> DeadlineInput.estMinutes])

LongRunActivityXp ==
  computeCaptureXp(FALSE) + LongRunOrganiseXp + LateRuns * LongRunDone.doneXp

InitLongRun ==
  /\ users = << [telegramId |-> 1,
                 totalXp |-> LongRunActivityXp + HabitRunXp(HabitRuns),
                 chrysolite |-> 0,
                 hp |-> InitialHp - LateRuns * HpPenalty] >>
  /\ activities = << [userId |-> 1, humanId |-> [prefix |-> "A", suffix |-> pad(1)],
                      link |-> FALSE, status |-> "complete-late",
                      goalId |-> DeadlineInput.goalId, incup |-> DeadlineInput.incup,
                      lifeArea |-> DeadlineInput.lifeArea,
                      horizon |-> DeadlineInput.horizon,
                      exeType |-> DeadlineInput.exeType,
                      category |-> DeadlineInput.category,
                      estMinutes |-> DeadlineInput.estMinutes,
                      deadline |-> DeadlineInput.deadline,
                      mentalBlock |-> DeadlineInput.mentalBlock,
                      feelingBefore |-> DeadlineInput.feelingBefore,
                      sessionStart |-> Unset, actualMinutes |-> 0,
                      completedAt |-> LongRunNow,
                      feelingAfter |-> NoString, emotionDelta |-> Unset,
                      captureXp |-> computeCaptureXp(FALSE),
                      organiseXp |-> LongRunOrganiseXp,
                      doneXp |-> LongRunDone.doneXp, evaluateXp |-> Unset,
                      totalXp |-> LongRunActivityXp,
                      chrysolite |-> LateRuns * LongRunDone.chrysolite] >>
  /\ habits = << [userId |-> 1, humanId |-> [prefix |-> "H", suffix |-> pad(1)],
                  currentStreak |-> HabitRuns, maxStreak |-> HabitRuns,
                  emotionDelta |-> 0] >>
  /\ now = LongRunNow
  /\ result = Ok("logHabit", 1)
  /\ awarded = [d \in ActivityDocIds |->
                  IF d = 1
                  THEN [s \in Stages |->
                          CASE s = "done" -> LateRuns
                            [] s = "evaluate" -> 0
                            [] OTHER -> 1]
                  ELSE [s \in Stages |-> 0]]
  /\ habitXpSum = [u \in UserIds |-> IF u = 1 THEN HabitRunXp(HabitRuns) ELSE 0]
  /\ ops = 0
  /\ goals = <<>>
  /\ issued = <<>>
  /\ settings = << NoSettings >>
  /\ offered = [t \in TelegramIds |-> {}]
  /\ sweep = [t \in TelegramIds |-> "idle"]
  /\ event = NoEvent
  /\ call = NoCall

SpecLongRun == (Init \/ InitLongRun) /\ [][Next]_vars

\* ------------------------------------------------ creation and goal upkeep
\* Requests that create documents, in any serial order, and the goal patches.
NextCreate ==
  \/ \E t \in 1..MaxUsers : ensureUser(t) /\ UNCHANGED <<offered, sweep, event, call>>
  \/ \E u \in CaptureOwners : Api(captureActivity(u, FALSE))
  \/ \E u \in CaptureOwners : Api(createHabit(u, "health"))
  \/ \E u \in GoalOwners : Api(createGoal(u, SaveGoal))
  \/ \E u \in GoalOwners, gs \in GoalBatches : Api(createGoalsFromGapAnalysis(u, gs))
  \/ \E d \in GoalDocIds, f \in UpdateInputs : Api(updateGoal(d, f))

SpecCreate == Init /\ [][NextCreate]_vars

\* Goal creation for the owners, with documents removed in between.
NextIds ==
  \/ \E u \in GoalOwners, g \in GoalInputs : Api(createGoal(u, g))
  \/ \E d \in GoalDocIds : Api(deleteGoal(d))

SpecIds == Init /\ [][NextIds]_vars


\* ======================================================== src/flows.js
\* ---------------------------------------------------------------- strings
\* indexOf: the zero-based place of the first ch in s, -1 when there is none.
indexOf(s, ch) ==
  IF \E i \in DOMAIN s : s[i] = ch
  THEN (CHOOSE i \in DOMAIN s : s[i] = ch /\ \A j \in 1..(i - 1) : s[j] # ch) - 1
  ELSE -1

\* substring(from, to) and substring(from), zero-based, to excluded.
substring(s, from, to) == SubSeq(s, from + 1, to)
substringFrom(s, from) == SubSeq(s, from + 1, Len(s))

IsSpace(ch) == ch = " " \/ ch = "\n"

RECURSIVE trimStart(_)
trimStart(s) == IF Len(s) > 0 /\ IsSpace(Head(s)) THEN trimStart(Tail(s)) ELSE s

RECURSIVE trimEnd(_)
trimEnd(s) ==
  IF Len(s) > 0 /\ IsSpace(s[Len(s)]) THEN trimEnd(SubSeq(s, 1, Len(s) - 1)) ELSE s

trim(s) == trimEnd(trimStart(s))

\* split(sep): the pieces between the separators, at least one piece.
RECURSIVE split(_, _)
split(s, sep) ==
  LET i == indexOf(s, sep)
  IN IF i < 0 THEN << s >>
     ELSE << substring(s, 0, i) >> \o split(substringFrom(s, i + 1), sep)

lowerCase(s) == [i \in DOMAIN s |-> toLowerCase(s[i])]

\* The characters of the life-area names.
AreaText ==
  [a \in Areas |->
     CASE a = "spiritual" -> <<"s","p","i","r","i","t","u","a","l">>
       [] a = "physical"  -> <<"p","h","y","s","i","c","a","l">>
       [] a = "mental"    -> <<"m","e","n","t","a","l">>
       [] a = "financial" -> <<"f","i","n","a","n","c","i","a","l">>
       [] a = "social"    -> <<"s","o","c","i","a","l">>
       [] a = "emotional" -> <<"e","m","o","t","i","o","n","a","l">>]

\* areaMap[rawArea]: the life area of that name, undefined when there is none.
\* areaMap is an object literal, so the key 'constructor' finds the inherited
\* Object.prototype.constructor, a function, which is not undefined.
areaMap(rawArea) ==
  IF \E a \in Areas : AreaText[a] = rawArea
  THEN CHOOSE a \in Areas : AreaText[a] = rawArea
  ELSE IF rawArea = <<"c","o","n","s","t","r","u","c","t","o","r">>
  THEN "Object"
  ELSE NoString

\* parseInt('90'), parseInt('120'), parseInt('240') of the interval buttons.
IntervalMinutes ==
  [a \in {"90", "120", "240"} |->
     CASE a = "90" -> parseInt(<<"9","0">>, Unset)
       [] a = "120" -> parseInt(<<"1","2","0">>, Unset)
       [] a = "240" -> parseInt(<<"2","4","0">>, Unset)]

\* ------------------------------------------------------------ state helpers
\* The user document of a Telegram id, 0 when there is none.
UserOf(t) ==
  IF \E i \in DOMAIN users : users[i].telegramId = t
  THEN CHOOSE i \in DOMAIN users : users[i].telegramId = t
  ELSE 0

\* getState(telegramId): the parsed botState, {} when there is none.
getState(t) == IF UserOf(t) = 0 THEN NoState ELSE settings[UserOf(t)].botState

HasFlow(state) == state.flow # NoString

\* !!(state && state.waiting4Reply)
isWaiting(state) == state.waiting4Reply = "true"

\* setWaiting(telegramId, waiting) on a stored state
setWaiting(state, waiting) ==
  [state EXCEPT !.waiting4Reply = IF waiting THEN "true" ELSE "false"]

\* state.convexUserId || await dbEnsureUser(telegramId)
convexUserIdOf(t, state) ==
  IF state.convexUserId # 0 THEN state.convexUserId ELSE UserOf(t)

\* What the mutations' tables hold.
tables == <<users, activities, habits, now, result, awarded, habitXpSum, ops,
            goals, issued>>

Command(t, name) ==
  [from |-> t, kind |-> "command", data |-> name, arg |-> NoString,
   text |-> NoText, sent |-> {}]
Text(t, text) ==
  [from |-> t, kind |-> "text", data |-> NoString, arg |-> NoString,
   text |-> text, sent |-> {}]
Callback(t, data, arg) ==
  [from |-> t, kind |-> "callback", data |-> data, arg |-> arg,
   text |-> NoText, sent |-> {}]

\* The callback data of the inline buttons handled here.
Buttons == {"SETUP_GUIDE:start", "SETUP_GUIDE:manual", "SETUP_GUIDE:interval",
            "ORG_ORDER", "ORG_INCUP", "ORG_AREA:habit", "HABIT_LOG"}

\* The router has ensured the user (ensureUser, the first call of routeMessage
\* and routeCallbackQuery); the handler of the update ev leaves userSettings
\* in the user document and has sent the messages msgs.
Handled(t, ev, userSettings, msgs) ==
  /\ UserOf(t) # 0
  /\ settings' = [settings EXCEPT ![UserOf(t)] = userSettings]
  /\ offered' = [offered EXCEPT ![t] = @ \cup (msgs \cap Buttons)]
  /\ event' = [ev EXCEPT !.sent = msgs]
  /\ UNCHANGED <<sweep, call>>

\* String(chatId) of the private chat of the user
ChatOf(t) == "chat"

IntervalButtons == {"SETUP_GUIDE:interval"}

\* ------------------------------------------------------------- /start, /reset
handleStart(t) ==
  /\ UserOf(t) # 0
  /\ LET me == [settings[UserOf(t)] EXCEPT !.chatId = ChatOf(t)]
     IN IF HasFlow(me.botState)
        THEN Handled(t, Command(t, "/start"), me, {"TELL:busy"})
        ELSE Handled(t, Command(t, "/start"),
                     [me EXCEPT !.botState =
                        [NoState EXCEPT !.flow = "onboarding",
                                        !.convexUserId = UserOf(t)]],
                     {"SETUP_GUIDE:start", "SETUP_GUIDE:manual"})
  /\ UNCHANGED tables

handleReset(t) ==
  /\ UserOf(t) # 0
  /\ Handled(t, Command(t, "/reset"),
             [settings[UserOf(t)] EXCEPT !.botState = NoState], {"TELL:reset"})
  /\ UNCHANGED tables

\* askGapAnalysisQuestion on the stored state, an area being left to ask about
askGapAnalysisQuestion(state) ==
  IF isWaiting(state) THEN state ELSE setWaiting(state, TRUE)

\* stepTexts[state.step] || 'Tell me more:', sent unless a reply is awaited
gapPrompt(state) ==
  IF isWaiting(state) THEN {}
  ELSE { CASE state.step = "ideal" -> "ASK:ideal"
           [] state.step = "current" -> "ASK:current"
           [] state.step = "obstacle" -> "ASK:obstacle"
           [] OTHER -> "ASK:more" }

\* The callback data of the three kinds of SETUP_GUIDE buttons.
SetupButton(action) ==
  CASE action = "interval" -> "SETUP_GUIDE:interval"
    [] action = "start" -> "SETUP_GUIDE:start"
    [] action = "manual" -> "SETUP_GUIDE:manual"

handleSetupGuide(t, action, arg) ==
  /\ UserOf(t) # 0
  /\ SetupButton(action) \in offered[t]
  /\ LET me == [settings[UserOf(t)] EXCEPT !.chatId = ChatOf(t)]
         state == me.botState
         convexUserId == convexUserIdOf(t, state)
         ev == Callback(t, SetupButton(action), arg)
     IN CASE action = "manual" ->
               Handled(t, ev,
                 [me EXCEPT !.botState =
                    setWaiting([NoState EXCEPT !.flow = "manual_goals",
                                               !.step = "waiting",
                                               !.convexUserId = convexUserId], TRUE)],
                 {"ASK:manual"})
          [] action = "start" ->
               Handled(t, ev,
                 [me EXCEPT !.botState =
                    askGapAnalysisQuestion(
                      [NoState EXCEPT !.flow = "gap_analysis", !.areaIndex = 0,
                                      !.step = "ideal",
                                      !.convexUserId = convexUserId])],
                 gapPrompt([NoState EXCEPT !.step = "ideal"]))
          [] action = "interval" ->
               IF me.organizeIntervalMinutes > 0
               THEN Handled(t, ev, me, {})
               ELSE Handled(t, ev,
                      [me EXCEPT !.organizeIntervalMinutes = IntervalMinutes[arg],
                                 !.lastOrganizedAt = now,
                                 !.botState = NoState],
                      {"TELL:interval"})
  /\ UNCHANGED tables


\* ------------------------------------------------------------- gap analysis
\* LIFE_AREAS[state.areaIndex], undefined past the end
areaAt(state) ==
  IF state.areaIndex + 1 \in DOMAIN LIFE_AREAS
  THEN LIFE_AREAS[state.areaIndex + 1] ELSE NoString

\* state.areaData[area][state.step] = text, then the step moves on
answered_restart(state, text) ==
  LET area == areaAt(state)
      data == IF area = NoString \/ state.step \notin DOMAIN NoAnswers
              THEN state.areaData
              ELSE [state.areaData EXCEPT ![area][state.step] = text]
  IN IF state.step = "ideal"
     THEN [state EXCEPT !.areaData = data, !.step = "current"]
     ELSE IF state.step = "current"
     THEN [state EXCEPT !.areaData = data, !.step = "obstacle"]
     ELSE [state EXCEPT !.areaData = data, !.areaIndex = 0, !.step = "ideal"]

answered(state, text) ==
  LET area == areaAt(state)
      data == IF area = NoString \/ state.step \notin DOMAIN NoAnswers
              THEN state.areaData
              ELSE [state.areaData EXCEPT ![area][state.step] = text]
  IN IF state.step = "ideal"
     THEN [state EXCEPT !.areaData = data, !.step = "current"]
     ELSE IF state.step = "current"
     THEN [state EXCEPT !.areaData = data, !.step = "obstacle"]
     ELSE [state EXCEPT !.areaData = data, !.areaIndex = @ + 1, !.step = "ideal"]

IsTruthy(text) == text # NoText /\ Len(text) > 0

\* substring(0, 80)
Head80(text) == substring(text, 0, IF Len(text) < 80 THEN Len(text) ELSE 80)

\* The goals of deriveGoalsFromGapAnalysis for the areas LIFE_AREAS[i..]
RECURSIVE derivedGoals(_, _)
derivedGoals(areaData, i) ==
  IF i > Len(LIFE_AREAS) THEN <<>>
  ELSE LET area == LIFE_AREAS[i]
           d == areaData[area]
       IN (IF ~IsTruthy(d.ideal) THEN <<>>
           ELSE << [title |-> <<"Reach ideal ">> \o AreaText[area] \o <<": ">>
                                \o Head80(d.ideal),
                    lifeArea |-> area, horizon |-> "annum",
                    category |-> "main-quest"] >>
                \o (IF d.obstacle # NoText /\ Len(d.obstacle) > 20
                    THEN << [title |-> <<"Overcome ">> \o AreaText[area]
                                         \o <<" obstacle: ">> \o Head80(d.obstacle),
                             lifeArea |-> area, horizon |-> "quarter",
                             category |-> "sleeping-dragon"] >>
                    ELSE <<>>))
          \o derivedGoals(areaData, i + 1)

\* setState({ flow: 'onboarding', step: 'interval', convexUserId }), setWaiting(true)
intervalState(convexUserId) ==
  setWaiting([NoState EXCEPT !.flow = "onboarding", !.step = "interval",
                             !.convexUserId = convexUserId], TRUE)

handleGapAnalysisReply(t, text, state) ==
  LET me == settings[UserOf(t)]
      stored == answered(state, text)
  IN IF areaAt(stored) # NoString
     THEN /\ Handled(t, Text(t, text),
                     [me EXCEPT !.botState = askGapAnalysisQuestion(stored)],
                     gapPrompt(stored))
          /\ UNCHANGED tables
     ELSE /\ createGoalsWithin(stored.convexUserId,
                               derivedGoals(stored.areaData, 1), MaxBotGoals)
          /\ Handled(t, Text(t, text),
                     [me EXCEPT !.botState = intervalState(stored.convexUserId)],
                     IntervalButtons)

\* -------------------------------------------------------------- manual goals
\* The goals the lines "area: goal" name, in order.
RECURSIVE manualGoals(_)
manualGoals(lines) ==
  IF Len(lines) = 0 THEN <<>>
  ELSE LET line == Head(lines)
           colonIdx == indexOf(line, ":")
           rawArea == lowerCase(trim(substring(line, 0, colonIdx)))
           goal == trim(substringFrom(line, colonIdx + 1))
           area == areaMap(rawArea)
       IN (IF colonIdx < 0 \/ area = NoString \/ Len(goal) = 0 THEN <<>>
           ELSE << [title |-> goal, lifeArea |-> area, horizon |-> "annum",
                    category |-> "main-quest"] >>)
          \o manualGoals(Tail(lines))

handleManualGoalsReply(t, text, state) ==
  LET me == settings[UserOf(t)]
      goalsToCreate == manualGoals(split(text, "\n"))
  IN IF Len(goalsToCreate) = 0
     THEN /\ Handled(t, Text(t, text), me, {"WARN:manual"})
          /\ UNCHANGED tables
     ELSE IF \E i \in DOMAIN goalsToCreate : goalsToCreate[i].lifeArea \notin Areas
     THEN \* the validator of createGoalsFromGapAnalysis rejects the call
          /\ result' = Err("createGoals", 0, "ArgumentValidationError")
          /\ Handled(t, Text(t, text), me, {})
          /\ UNCHANGED <<users, activities, habits, now, awarded, habitXpSum, ops,
                         goals, issued>>
     ELSE /\ createGoalsWithin(state.convexUserId, goalsToCreate, MaxBotGoals)
          /\ Handled(t, Text(t, text),
                     [me EXCEPT !.botState = intervalState(state.convexUserId)],
                     {"TELL:saved"} \cup IntervalButtons)


\* ------------------------------------------------------------------ capture
\* handleForwardedMessage, the router having ensured the user
handleForwardedMessage(t, hasLink) ==
  /\ UserOf(t) # 0
  /\ captureActivity(UserOf(t), hasLink)
  /\ event' = [from |-> t, kind |-> "forward", data |-> NoString,
               arg |-> NoString, text |-> NoText, sent |-> {"TELL:captured"}]
  /\ UNCHANGED <<settings, offered, sweep, goals, issued, call>>

\* ----------------------------------------------------------------- organise
reverse(seq) == [i \in 1..Len(seq) |-> seq[Len(seq) - i + 1]]

\* listCapturedActivities: the captured documents of the user, oldest first
listCaptured(userId) ==
  SelectSeq([i \in 1..Len(activities) |-> i],
            LAMBDA i : activities[i].userId = userId
                       /\ activities[i].status = "captured")

\* listGoalsForUser(userId, 'active'): the goal ids of the pick-list
listGoals(userId) ==
  LET active == SelectSeq(goals, LAMBDA g : g.present /\ g.userId = userId
                                            /\ g.status = "active")
  IN [i \in 1..Len(active) |-> active[i].humanId]

\* presentOrganiseItem on a stored state with an item left in the queue
presentOrganiseItem(state) ==
  IF isWaiting(state) THEN state
  ELSE setWaiting([state EXCEPT !.step = "goal",
                                !.goals = listGoals(state.convexUserId)], TRUE)

handleOrganizeOrder(t, order) ==
  /\ UserOf(t) # 0
  /\ "ORG_ORDER" \in offered[t]
  /\ LET me == settings[UserOf(t)]
         convexUserId == convexUserIdOf(t, me.botState)
         captured == listCaptured(convexUserId)
         queue == IF order = "desc" THEN reverse(captured) ELSE captured
     IN IF Len(captured) = 0
        THEN Handled(t, Callback(t, "ORG_ORDER", order), me, {"TELL:nothing"})
        ELSE Handled(t, Callback(t, "ORG_ORDER", order),
                     [me EXCEPT !.botState =
                        presentOrganiseItem(
                          [NoState EXCEPT !.flow = "organise",
                                          !.convexUserId = convexUserId,
                                          !.queue = queue, !.qIndex = 0])],
                     {"ASK:goal"})
  /\ UNCHANGED tables

\* askOrganiseStep(step) on a stored state; the buttons of the step are sent
\* unless a reply is awaited.
askOrganiseStep(state, step) ==
  IF isWaiting(state) THEN state
  ELSE setWaiting([state EXCEPT !.step = step], TRUE)

handleOrganiseTextReply(t, text, state) ==
  /\ LET me == settings[UserOf(t)]
         idx == parseInt(trim(text), Unset) - 1
         goalId == IF idx >= 0 /\ idx + 1 \in DOMAIN state.goals
                   THEN state.goals[idx + 1] ELSE NoId
         stored == [state EXCEPT !.pendingGoalId = goalId]
     IN IF state.step # "goal"
        THEN Handled(t, Text(t, text), me, {})
        ELSE Handled(t, Text(t, text),
                     [me EXCEPT !.botState = askOrganiseStep(stored, "incup")],
                     IF isWaiting(stored) THEN {} ELSE {"ORG_INCUP"})
  /\ UNCHANGED tables

\* A press of a button ORG_AREA:habit:<area>
handleOrganizeArea(t, area) ==
  /\ UserOf(t) # 0
  /\ "ORG_AREA:habit" \in offered[t]
  /\ LET me == settings[UserOf(t)]
     IN Handled(t, Callback(t, "ORG_AREA:habit", area),
                [me EXCEPT !.botState =
                   setWaiting([me.botState EXCEPT !.habitLifeArea = area,
                                                  !.step = "variants"], TRUE)],
                {"ASK:variants"})
  /\ UNCHANGED tables

\* ------------------------------------------------------------------- habits
\* listHabits(userId), as many as there are
listHabits(userId) == SelectSeq(habits, LAMBDA h : h.userId = userId)

handleHabitsMenu(t) ==
  /\ UserOf(t) # 0
  /\ LET me == settings[UserOf(t)]
         convexUserId == convexUserIdOf(t, me.botState)
     IN IF Len(listHabits(convexUserId)) = 0
        THEN Handled(t, Command(t, "/habits"),
                     [me EXCEPT !.botState =
                        setWaiting([NoState EXCEPT !.flow = "habit_create",
                                                   !.step = "name",
                                                   !.convexUserId = convexUserId],
                                   TRUE)],
                     {"ASK:name"})
        ELSE Handled(t, Command(t, "/habits"), me, {"HABIT_LOG"})
  /\ UNCHANGED tables

handleHabitCreateReply(t, text, state) ==
  LET me == settings[UserOf(t)]
  IN CASE state.step = "name" ->
            /\ Handled(t, Text(t, text),
                       [me EXCEPT !.botState =
                          setWaiting([state EXCEPT !.habitName = text,
                                                   !.step = "lifeArea"], TRUE)],
                       {"ORG_AREA:habit"})
            /\ UNCHANGED tables
       [] state.step = "variants" ->
            /\ createHabit(state.convexUserId,
                           IF state.habitLifeArea # NoString
                           THEN state.habitLifeArea ELSE "mental")
            /\ Handled(t, Text(t, text),
                       IF result'.ok THEN [me EXCEPT !.botState = NoState] ELSE me,
                       IF result'.ok THEN {"TELL:created"} ELSE {})
       [] OTHER ->
            /\ Handled(t, Text(t, text), me, {})
            /\ UNCHANGED tables

\* ------------------------------------------------- conversation state router
handleConversationState(t, text) ==
  /\ UserOf(t) # 0
  /\ LET state == getState(t)
     IN CASE state.flow = "gap_analysis" -> handleGapAnalysisReply(t, text, state)
          [] state.flow = "manual_goals" -> handleManualGoalsReply(t, text, state)
          [] state.flow = "organise" -> handleOrganiseTextReply(t, text, state)
          [] state.flow = "habit_create" -> handleHabitCreateReply(t, text, state)
          [] OTHER -> /\ Handled(t, Text(t, text), settings[UserOf(t)], {})
                      /\ UNCHANGED tables

\* ----------------------------------------------------------- reminder sweep
\* One run of organiseReminderTrigger for one user, call by call: the list
\* query and the checks on its row; dbGetState; getState of
\* triggerOrganiseReminder; dbListCaptured; sendMessage.
IsDue(userSettings) ==
  /\ Truthy(userSettings.organizeIntervalMinutes)
  /\ now - (IF userSettings.lastOrganizedAt = Unset THEN 0
            ELSE userSettings.lastOrganizedAt)
       >= userSettings.organizeIntervalMinutes

SweepStep(t, from, to, msgs) ==
  /\ UserOf(t) # 0
  /\ sweep[t] = from
  /\ sweep' = [sweep EXCEPT ![t] = to]
  /\ event' = [NoEvent EXCEPT !.sent = msgs]
  /\ UNCHANGED <<tables, settings, call>>

organiseReminderTrigger(t) ==
  /\ UserOf(t) # 0
  /\ IsDue(settings[UserOf(t)])
  /\ SweepStep(t, "idle",
               IF settings[UserOf(t)].chatId = NoString
                  \/ ~Truthy(settings[UserOf(t)].lastOrganizedAt)
               THEN "idle" ELSE "listed", {})
  /\ UNCHANGED offered

reminderGetState(t) ==
  /\ SweepStep(t, "listed", IF HasFlow(getState(t)) THEN "idle" ELSE "passed", {})
  /\ UNCHANGED offered

triggerOrganiseReminder(t) ==
  /\ SweepStep(t, "passed", IF HasFlow(getState(t)) THEN "idle" ELSE "cleared", {})
  /\ UNCHANGED offered

reminderListCaptured(t) ==
  /\ SweepStep(t, "cleared",
               IF Len(listCaptured(UserOf(t))) = 0 THEN "idle" ELSE "send", {})
  /\ UNCHANGED offered

reminderSend(t) ==
  /\ SweepStep(t, "send", "idle", {"ORG_ORDER"})
  /\ offered' = [offered EXCEPT ![t] = @ \cup {"ORG_ORDER"}]

\* The clock moves by the shortest reminder interval.
ReminderStep == 90

Later ==
  /\ now + ReminderStep <= MaxLater
  /\ now' = now + ReminderStep
  /\ event' = NoEvent
  /\ UNCHANGED <<users, activities, habits, result, awarded, habitXpSum, ops,
                 goals, issued, settings, offered, sweep, call>>

\* ---------------------------------------------------------- what users send
AnswerText == <<"o", "k">>
EmptyText == <<>>
ManualText == <<"M","e","n","t","a","l",":"," ","r","e","a","d","\n",
                "s","o","c","i","a","l",":">>
HabitNameText == <<"j", "o", "g">>
VariantsText == <<"a", "/", "b", "/", "c", "/", "d">>
PickText == <<"1">>
InheritedKeyText == <<"M","e","n","t","a","l",":"," ","r","e","a","d","\n",
                      "c","o","n","s","t","r","u","c","t","o","r",":"," ","x">>

\* The texts a user in the given conversation state may send.
ReplyTexts(state) ==
  CASE state.flow = "gap_analysis" ->
         IF state.areaIndex = 0 /\ state.step = "ideal" THEN {AnswerText, EmptyText}
         ELSE {AnswerText}
    [] state.flow = "manual_goals" -> {ManualText, AnswerText, InheritedKeyText}
    [] state.flow = "organise" -> {PickText, AnswerText}
    [] state.flow = "habit_create" ->
         IF state.step = "name" THEN {HabitNameText}
         ELSE IF state.step = "variants" THEN {VariantsText, AnswerText}
         ELSE {AnswerText}
    [] OTHER -> {AnswerText}

IntervalArgs == {"90"}
OrderArgs == {"asc", "desc"}

\* The chats that talk to the bot.
Chats == {1}

\* The life area whose button is pressed outside the habit dialogue.
PressedAreas == {"physical"}

NextWizard ==
  \/ \E t \in Chats : ensureUser(t) /\ event' = NoEvent /\ UNCHANGED <<offered, sweep, call>>
  \/ \E t \in Chats : handleStart(t)
  \/ \E t \in Chats : handleReset(t)
  \/ \E t \in Chats : handleHabitsMenu(t)
  \/ \E t \in Chats : handleForwardedMessage(t, FALSE)
  \/ \E t \in Chats, a \in {"start", "manual"} : handleSetupGuide(t, a, NoString)
  \/ \E t \in Chats, m \in IntervalArgs : handleSetupGuide(t, "interval", m)
  \/ \E t \in Chats : \E text \in ReplyTexts(getState(t)) :
        handleConversationState(t, text)
  \/ \E t \in Chats, o \in OrderArgs : handleOrganizeOrder(t, o)
  \/ \E t \in Chats, a \in Areas :
        \* the area buttons are pressed while the habit dialogue runs or
        \* when no dialogue runs, and one of them while the organise
        \* dialogue runs
        /\ \/ getState(t).flow \in {"habit_create", NoString}
           \/ getState(t).flow = "organise" /\ a \in PressedAreas
        /\ handleOrganizeArea(t, a)
  \/ \E t \in Chats : organiseReminderTrigger(t)
  \/ \E t \in Chats : reminderGetState(t)
  \/ \E t \in Chats : triggerOrganiseReminder(t)
  \/ \E t \in Chats : reminderListCaptured(t)
  \/ \E t \in Chats : reminderSend(t)
  \/ Later

SpecWizard == Init /\ [][NextWizard]_vars

\* --------------------------------------------------- the organise dialogue alone
\* The updates of one user up to and in an organise dialogue: the start, the
\* manual onboarding and the interval choice, forwarded messages, the
\* reminder sweep, the order choice and replies.
NextOrganise ==
  \/ \E t \in Chats : ensureUser(t) /\ event' = NoEvent /\ UNCHANGED <<offered, sweep, call>>
  \/ \E t \in Chats : handleStart(t)
  \/ \E t \in Chats : handleSetupGuide(t, "manual", NoString)
  \/ \E t \in Chats, m \in IntervalArgs : handleSetupGuide(t, "interval", m)
  \/ \E t \in Chats : handleForwardedMessage(t, FALSE)
  \/ \E t \in Chats : \E text \in ReplyTexts(getState(t)) : handleConversationState(t, text)
  \/ \E t \in Chats, o \in OrderArgs : handleOrganizeOrder(t, o)
  \/ \E t \in Chats : organiseReminderTrigger(t)
  \/ \E t \in Chats : reminderGetState(t)
  \/ \E t \in Chats : triggerOrganiseReminder(t)
  \/ \E t \in Chats : reminderListCaptured(t)
  \/ \E t \in Chats : reminderSend(t)
  \/ Later

\* The user keeps answering: a reply to the organise dialogue is sent sooner
\* or later, and the bot handles every update it receives.
OrganiseReply(t) ==
  /\ getState(t).flow = "organise"
  /\ \E text \in {PickText, AnswerText} : handleConversationState(t, text)

SpecOrganise ==
  /\ Init
  /\ [][NextOrganise]_vars
  /\ \A t \in Chats : WF_vars(OrganiseReply(t))

\* ------------------------------------------------------ the sweep alone
\* One run of the reminder sweep over several users, any of whose awaited
\* calls may throw.  A user of the sweep is ready (chat id, timestamp, no
\* dialogue, one captured item), or lacks the chat id, or is in a dialogue,
\* or has nothing captured.
SweepIds == 1..SweepUsers

Profiles == {"ready", "nochat", "inflow", "empty"}

SweepSettings(profile) ==
  [organizeIntervalMinutes |-> IntervalMinutes["90"],
   lastOrganizedAt |-> StartNow,
   chatId |-> IF profile = "nochat" THEN NoString ELSE "chat",
   botState |-> IF profile = "inflow"
                THEN setWaiting([NoState EXCEPT !.flow = "manual_goals",
                                                !.step = "waiting"], TRUE)
                ELSE NoState]

\* The captured items of the users, in the order of the users.
RECURSIVE SweepActivities(_, _)
SweepActivities(profile, n) ==
  IF n = 0 THEN <<>>
  ELSE LET before == SweepActivities(profile, n - 1)
       IN IF profile[n] = "empty" THEN before
          ELSE Append(before,
                      capturedDoc(n, [prefix |-> "A", suffix |-> pad(1)], FALSE,
                                  computeCaptureXp(FALSE)))

InitSweep ==
  \E profile \in [SweepIds -> Profiles] :
    /\ users = [t \in SweepIds |->
                  [telegramId |-> t,
                   totalXp |-> IF profile[t] = "empty" THEN 0
                               ELSE computeCaptureXp(FALSE),
                   chrysolite |-> 0, hp |-> InitialHp]]
    /\ settings = [t \in SweepIds |-> SweepSettings(profile[t])]
    /\ activities = SweepActivities(profile, SweepUsers)
    /\ habits = <<>>
    /\ now = StartNow + IntervalMinutes["90"]
    /\ result = Ok("init", 0)
    /\ awarded = [d \in SweepIds |->
                    [s \in Stages |->
                       IF s = "capture" /\ d <= Len(activities) THEN 1 ELSE 0]]
    /\ habitXpSum = [u \in UserIds |-> 0]
    /\ ops = 0
    /\ goals = <<>>
    /\ issued = <<>>
    /\ offered = [t \in SweepIds |-> {}]
    /\ sweep = [t \in SweepIds |-> "idle"]
    /\ event = NoEvent
    /\ call = NoCall

\* The users whose processing ends when an awaited call of the processing of
\* user t throws: the callback of users.map catches what it throws.
caught_sweep(t) == DOMAIN sweep

caught(t) == {t}

\* dbGetState, getState, dbEnsureUser / dbListCaptured or sendMessage throws
\* while user t is processed; the error is logged.
reminderFails(t) ==
  /\ UserOf(t) # 0
  /\ sweep[t] \in {"listed", "passed", "cleared", "send"}
  /\ sweep' = [u \in DOMAIN sweep |-> IF u \in caught(t) THEN "idle" ELSE sweep[u]]
  /\ event' = [NoEvent EXCEPT !.from = t, !.kind = "error"]
  /\ UNCHANGED <<tables, settings, offered, call>>

InSweep(t) == sweep[t] # "idle"

SweepOf(t) ==
  \/ reminderGetState(t)
  \/ triggerOrganiseReminder(t)
  \/ reminderListCaptured(t)
  \/ reminderSend(t)

NextSweep ==
  \/ \E t \in SweepIds : organiseReminderTrigger(t)
  \/ \E t \in SweepIds : reminderGetState(t)
  \/ \E t \in SweepIds : triggerOrganiseReminder(t)
  \/ \E t \in SweepIds : reminderListCaptured(t)
  \/ \E t \in SweepIds : reminderSend(t)
  \/ \E t \in SweepIds : reminderFails(t)

\* An awaited call of the sweep returns or throws.
SpecSweep ==
  /\ InitSweep
  /\ [][NextSweep]_vars
  /\ \A t \in SweepIds : WF_vars(SweepOf(t))

\* ------------------------------------------------- the guided onboarding alone
\* The updates of one user around a guided onboarding: the start, the habit
\* menu (whose life-area buttons stay on screen), the guided choice, replies,
\* and a press of a life-area button whatever dialogue is stored.
NextGuided ==
  \/ \E t \in Chats : ensureUser(t) /\ event' = NoEvent /\ UNCHANGED <<offered, sweep, call>>
  \/ \E t \in Chats : handleStart(t)
  \/ \E t \in Chats : handleHabitsMenu(t)
  \/ \E t \in Chats : handleSetupGuide(t, "start", NoString)
  \/ \E t \in Chats : \E text \in ReplyTexts(getState(t)) : handleConversationState(t, text)
  \/ \E t \in Chats, a \in PressedAreas :
        \* the button is pressed during the questions on the first area, or
        \* outside the guided dialogue
        /\ getState(t).flow = "gap_analysis" => getState(t).areaIndex = 0
        /\ handleOrganizeArea(t, a)

SpecGuided == Init /\ [][NextGuided]_vars


\* ------------------------------------------------- the scoring functions
\* Calls of parseIncupScore, computeDoneXp and computeHabitXp on their own:
\* the arguments are drawn at start-up, the call then returns.
\* INCUP_OPTIONS, and the characters of each option.
INCUP_OPTIONS == <<"Interesting", "Novel", "Challenging", "Urgent", "Pressure/Passion">>

OptionText ==
  [o \in {INCUP_OPTIONS[i] : i \in DOMAIN INCUP_OPTIONS} |->
     CASE o = "Interesting" -> <<"I","n","t","e","r","e","s","t","i","n","g">>
       [] o = "Novel" -> <<"N","o","v","e","l">>
       [] o = "Challenging" -> <<"C","h","a","l","l","e","n","g","i","n","g">>
       [] o = "Urgent" -> <<"U","r","g","e","n","t">>
       [] o = "Pressure/Passion" ->
            <<"P","r","e","s","s","u","r","e","/","P","a","s","s","i","o","n">>]

\* One press of a tag button: the tag leaves the selection if it is in it
\* (splice) and is added at the end otherwise (push).
toggle(incupSelected, tag) ==
  IF \E i \in DOMAIN incupSelected : incupSelected[i] = tag
  THEN SelectSeq(incupSelected, LAMBDA o : o # tag)
  ELSE Append(incupSelected, tag)

\* state.incupSelected after the presses, starting from the given selection
RECURSIVE toggled(_, _)
toggled(incupSelected, presses) ==
  IF Len(presses) = 0 THEN incupSelected
  ELSE toggled(toggle(incupSelected, Head(presses)), Tail(presses))

\* state.incupSelected.join('')
RECURSIVE join(_)
join(incupSelected) ==
  IF Len(incupSelected) = 0 THEN <<>>
  ELSE OptionText[Head(incupSelected)] \o join(Tail(incupSelected))

\* The presses of tag buttons before the press of Done.
RECURSIVE PressesOfLen(_)
PressesOfLen(n) ==
  IF n = 0 THEN { <<>> }
  ELSE { Append(s, o) : s \in PressesOfLen(n - 1), o \in DOMAIN OptionText }

IncupPresses == UNION { PressesOfLen(n) : n \in 0..MaxPresses }

TagAlphabet == {"U", "p", "3", "-"}

RECURSIVE TagsOfLen(_)
TagsOfLen(n) ==
  IF n = 0 THEN { <<>> }
  ELSE { Append(s, ch) : s \in TagsOfLen(n - 1), ch \in TagAlphabet }

IiCUp == <<"I", "i", "C", "U", "p">>

IncupInputs == {IiCUp} \cup UNION { TagsOfLen(n) : n \in 0..MaxTagLen }

\* Minutes on the clock: a deadline at ten hours, completion before it, on
\* it, a minute, two hours, ten hours and eleven hours after it.
DoneDeadline == 600
DoneInputs ==
  [organiseXp : {0, 5, 20, 21},
   completedAt : {540, 600, 601, 720, 1200, 1260},
   deadline : {Unset, DoneDeadline},
   mentalBlock : BOOLEAN,
   actualMinutes : {Unset, 40, 50, 70},
   estMinutes : {Unset, 0, 50}]

HabitInputs == [difficulty : DOMAIN HABIT_XP, currentStreak : 0..MaxStreak]

XpCalls ==
  { [fn |-> "parseIncupScore", args |-> a, done |-> FALSE, value |-> 0] :
      a \in IncupInputs }
  \cup { [fn |-> "computeDoneXp", args |-> a, done |-> FALSE, value |-> 0] :
           a \in DoneInputs }
  \cup { [fn |-> "computeHabitXp", args |-> a, done |-> FALSE, value |-> 0] :
           a \in HabitInputs }
  \cup { [fn |-> "handleOrganizeIncup", args |-> a, done |-> FALSE, value |-> 0] :
           a \in IncupPresses }

Returns(fn, value) ==
  /\ call.fn = fn
  /\ ~call.done
  /\ call' = [call EXCEPT !.done = TRUE, !.value = value]
  /\ UNCHANGED <<tables, settings, offered, sweep, event>>

callParseIncupScore == Returns("parseIncupScore", parseIncupScore(call.args))

callComputeDoneXp == Returns("computeDoneXp", computeDoneXp(call.args))

callComputeHabitXp ==
  Returns("computeHabitXp",
          computeHabitXp(call.args.difficulty, call.args.currentStreak))

\* The tag presses and the press of Done: the string stored as pendingIncup,
\* with the selection it was made from.
callHandleOrganizeIncup ==
  Returns("handleOrganizeIncup",
          [incupSelected |-> toggled(<<>>, call.args),
           pendingIncup |-> join(toggled(<<>>, call.args))])

InitXp == EmptyStore /\ call \in XpCalls

NextXp ==
  \/ callParseIncupScore
  \/ callComputeDoneXp
  \/ callComputeHabitXp
  \/ callHandleOrganizeIncup

SpecXp == InitXp /\ [][NextXp]_vars

\* ------------------------------------------------------------ properties
Rank(status) ==
  CASE status = "captured" -> 0
    [] status = "organized" -> 1
    [] status = "in-progress" -> 2
    [] OTHER -> 3

Completed == {"complete", "complete-late"}

\* An optional score counted as 0 when unset.
N(x) == IF x = Unset THEN 0 ELSE x

\* The step is a successful call of the lifecycle transition op on document d.
Succeeded(op, d) ==
  /\ ops' = ops + 1
  /\ result' = Ok(op, d)

\* The step ends with the call of op on document d rejected.
Rejected(op, d) ==
  /\ result'.op = op
  /\ result'.doc = d
  /\ ~result'.ok

InvalidState(err) == err \in {"No active session", "Activity not completed"}

RECURSIVE SumTotalXp(_, _)
SumTotalXp(docs, userId) ==
  IF Len(docs) = 0 THEN 0
  ELSE (IF Head(docs).userId = userId THEN Head(docs).totalXp ELSE 0)
       + SumTotalXp(Tail(docs), userId)

\* C1: over any sequence of lifecycle calls an activity's status never moves
\* backward in the order captured < organized < in-progress < terminal.
C1_StatusNeverMovesBackward ==
  [][\A d \in DOMAIN activities :
       Rank(activities'[d].status) >= Rank(activities[d].status)]_vars

\* C2: organizeActivity succeeds only on a captured activity, then stores the
\* organise score, sets status organized and adds the score to the owner's
\* total; on any other activity it is rejected and changes nothing.
C2_OrganizeOnlyFromCaptured ==
  [][\A d \in ActivityDocIds :
       /\ Succeeded("organize", d) =>
            /\ HasActivity(d)
            /\ activities[d].status = "captured"
            /\ activities'[d].status = "organized"
            /\ activities'[d].organiseXp # Unset
            /\ HasUser(activities[d].userId) =>
                 users'[activities[d].userId].totalXp =
                   users[activities[d].userId].totalXp + activities'[d].organiseXp
       /\ Rejected("organize", d) => activities' = activities /\ users' = users]_vars

\* C3: startFocusSession succeeds only on an organized activity, then records
\* the session start and sets status in-progress; on any other activity it
\* fails with InvalidState and leaves status and sessionStart unchanged.
C3_StartOnlyFromOrganized ==
  [][\A d \in ActivityDocIds :
       /\ Succeeded("startFocus", d) =>
            /\ HasActivity(d)
            /\ activities[d].status = "organized"
            /\ activities'[d].status = "in-progress"
            /\ activities'[d].sessionStart = now
       /\ Rejected("startFocus", d) => activities' = activities]_vars

\* C4: finishFocusSession succeeds only on an in-progress activity with a
\* recorded session start, and clears the session start; on an activity with
\* no active session it fails with "No active session" and changes neither
\* the activities nor the users.
C4_FinishOnlyFromActiveSession ==
  [][\A d \in ActivityDocIds :
       /\ Succeeded("finishFocus", d) =>
            /\ HasActivity(d)
            /\ activities[d].status = "in-progress"
            /\ activities[d].sessionStart # Unset
            /\ activities'[d].sessionStart = Unset
       /\ Rejected("finishFocus", d) =>
            /\ InvalidState(result'.err)
            /\ activities' = activities
            /\ users' = users]_vars

\* C5: evaluateActivity succeeds only on an activity whose status is complete
\* or complete-late; otherwise it fails and changes no score and no total.
C5_EvaluateOnlyFromComplete ==
  [][\A d \in ActivityDocIds :
       /\ Succeeded("evaluate", d) =>
            /\ HasActivity(d)
            /\ activities[d].status \in Completed
       /\ Rejected("evaluate", d) =>
            /\ InvalidState(result'.err)
            /\ activities' = activities
            /\ users' = users]_vars

\* C6: every activity's stored totalXp equals captureXp + organiseXp + doneXp
\* + evaluateXp, an unset stage score counting as 0.
C6_TotalIsSumOfStageScores ==
  \A d \in DOMAIN activities :
    activities[d].totalXp =
      activities[d].captureXp + N(activities[d].organiseXp)
      + N(activities[d].doneXp) + N(activities[d].evaluateXp)

\* C7: every user's totalXp equals the sum of totalXp over the activities the
\* user owns plus the sum of the habit scores logHabitSession returned for
\* the user's habits.
C7_UserTotalIsSumOfRecordedScores ==
  \A u \in DOMAIN users :
    users[u].totalXp = SumTotalXp(activities, u) + habitXpSum[u]

\* C7 witness: a user owns an organised activity, has logged a habit and
\* carries both scores.
C7_Witness ==
  \E u \in DOMAIN users :
    /\ habitXpSum[u] > 0
    /\ \E d \in DOMAIN activities :
         activities[d].userId = u /\ activities[d].organiseXp # Unset
    /\ users[u].totalXp > habitXpSum[u] + 10

\* C8: a stage score is set iff the stage has been reached: captureXp always,
\* organiseXp iff status is organized or later, doneXp iff status is complete
\* or complete-late, evaluateXp only when completed with doneXp set.
C8_ScoreSetIffStageReached ==
  \A d \in DOMAIN activities :
    /\ activities[d].captureXp # Unset
    /\ (activities[d].organiseXp # Unset) <=> (Rank(activities[d].status) >= 1)
    /\ (activities[d].doneXp # Unset) <=> (activities[d].status \in Completed)
    /\ (activities[d].evaluateXp # Unset) =>
         (activities[d].status \in Completed /\ activities[d].doneXp # Unset)

\* C9: every step that creates an activity or raises its totalXp by a stage
\* score adds the same amount to the owner's totalXp.
C9_TransitionUpdatesItemAndOwnerTogether ==
  [][\A d \in DOMAIN activities' :
       LET before == IF d \in DOMAIN activities THEN activities[d].totalXp ELSE 0
           owner == activities'[d].userId
       IN activities'[d].totalXp # before =>
            /\ HasUser(owner)
            /\ users'[owner].totalXp - users[owner].totalXp
                 = activities'[d].totalXp - before]_vars

\* C10: for every activity the owner's total receives the organise score, the
\* done score and the evaluate score at most once each.
C10_StageScoreAppliedAtMostOnce ==
  \A d \in ActivityDocIds :
    \A s \in {"organise", "done", "evaluate"} : awarded[d][s] <= 1

\* The finish of activity d in this step is past the activity's deadline.
FinishIsLate(d) == activities[d].deadline # Unset /\ now > activities[d].deadline

\* C11: every successful finishFocusSession whose completion time is past the
\* deadline sets status complete-late and sets the owner's hp to
\* max(0, hp - 10); a finish that is not late sets status complete and leaves
\* the owner's hp unchanged.
C11_LateFinishCostsHp ==
  [][\A d \in ActivityDocIds :
       Succeeded("finishFocus", d) =>
         LET owner == activities[d].userId
         IN IF FinishIsLate(d)
            THEN /\ activities'[d].status = "complete-late"
                 /\ HasUser(owner) =>
                      /\ users'[owner].hp >= 0
                      /\ users'[owner].hp =
                           (IF users[owner].hp >= 10 THEN users[owner].hp - 10 ELSE 0)
            ELSE /\ activities'[d].status = "complete"
                 /\ HasUser(owner) => users'[owner].hp = users[owner].hp]_vars

\* C11 witness: a late finish has just been applied to an owner whose hp was
\* already 0 (the eleventh late finish of the same activity).
C11_Witness ==
  \E d \in DOMAIN activities :
    /\ result = Ok("finishFocus", d)
    /\ activities[d].status = "complete-late"
    /\ HasUser(activities[d].userId)
    /\ users[activities[d].userId].hp = 0
    /\ awarded[d]["done"] > InitialHp \div HpPenalty

\* C12: every user's hp stays within 0..100; a new user starts at 100; hp
\* changes only in a successful late finish of an activity the user owns, and
\* then it decreases.
C12_HpBoundedAndOnlyLateFinishLowersIt ==
  /\ [](\A u \in DOMAIN users : users[u].hp \in 0..100)
  /\ [][\A u \in DOMAIN users' :
          IF u \notin DOMAIN users
          THEN users'[u].hp = 100
          ELSE users'[u].hp # users[u].hp =>
                 /\ users'[u].hp < users[u].hp
                 /\ \E d \in DOMAIN activities :
                      /\ Succeeded("finishFocus", d)
                      /\ activities[d].userId = u
                      /\ FinishIsLate(d)]_vars

\* C12 witness: a user's hp has just reached 0 with the tenth late finish.
C12_Witness ==
  \E d \in DOMAIN activities :
    /\ result = Ok("finishFocus", d)
    /\ HasUser(activities[d].userId)
    /\ users[activities[d].userId].hp = 0
    /\ awarded[d]["done"] = InitialHp \div HpPenalty

RECURSIVE SumChrysolite(_, _)
SumChrysolite(docs, userId) ==
  IF Len(docs) = 0 THEN 0
  ELSE (IF Head(docs).userId = userId THEN N(Head(docs).chrysolite) ELSE 0)
       + SumChrysolite(Tail(docs), userId)

\* Activity d of an existing owner went through organize, finish and evaluate
\* exactly once each and finished on time within 80% of its estimate.
RanOnceFast(d) ==
  /\ HasUser(activities[d].userId)
  /\ \A s \in Stages : awarded[d][s] = 1
  /\ activities[d].status = "complete"
  /\ activities[d].estMinutes > 0
  /\ 5 * activities[d].actualMinutes <= 4 * activities[d].estMinutes

\* C15: after capture, organize, start, finish (on time, actual duration at
\* most 80% of the estimate) and evaluate, each once, the activity's totalXp is
\* the sum of its four stage scores, the owner's total holds exactly that sum
\* for this activity, and the activity and the owner each received exactly
\* one chrysolite for it.
C15_FullRunTotalsAndOneChrysolite ==
  \A d \in DOMAIN activities :
    RanOnceFast(d) =>
      LET a == activities[d]
          sum == a.captureXp + a.organiseXp + a.doneXp + a.evaluateXp
          owner == a.userId
      IN /\ a.organiseXp # Unset /\ a.doneXp # Unset /\ a.evaluateXp # Unset
         /\ a.totalXp = sum
         /\ users[owner].totalXp
              = sum + (SumTotalXp(activities, owner) - a.totalXp) + habitXpSum[owner]
         /\ a.chrysolite = 1
         /\ users[owner].chrysolite
              = 1 + (SumChrysolite(activities, owner) - a.chrysolite)

\* C15 witness: an activity organised with a deadline and an estimate has been
\* through the whole run and evaluate has just returned.
C15_Witness ==
  \E d \in DOMAIN activities :
    /\ RanOnceFast(d)
    /\ result = Ok("evaluate", d)
    /\ activities[d].deadline # Unset
    /\ activities[d].feelingAfter # NoString

\* The finish of activity d in this step is on time and takes at most 0.8 of
\* a known, positive estimate.
FinishIsFast(d) ==
  /\ ~FinishIsLate(d)
  /\ activities[d].estMinutes # Unset
  /\ activities[d].estMinutes > 0
  /\ 5 * (now - activities[d].sessionStart) <= 4 * activities[d].estMinutes

\* C16: a user's chrysolite changes only in a successful finishFocusSession of
\* an activity the user owns that is not late and whose actual / estimated
\* minutes ratio is at most 0.8, and then it increases by exactly 1; every
\* other step leaves it unchanged, and a new user starts with 0.
C16_ChrysoliteOnlyForFastOnTimeFinish ==
  [][\A u \in DOMAIN users' :
       LET before == IF u \in DOMAIN users THEN users[u].chrysolite ELSE 0
           earned == \E d \in DOMAIN activities :
                       /\ Succeeded("finishFocus", d)
                       /\ activities[d].userId = u
                       /\ FinishIsFast(d)
       IN users'[u].chrysolite = (IF earned THEN before + 1 ELSE before)]_vars

\* C16 witness: an owner who earned one chrysolite has just finished the same
\* activity again on time but in exactly the estimated time, and still has one.
C16_Witness ==
  \E d \in DOMAIN activities :
    /\ result = Ok("finishFocus", d)
    /\ HasUser(activities[d].userId)
    /\ users[activities[d].userId].chrysolite = 1
    /\ activities[d].status = "complete"
    /\ activities[d].actualMinutes = activities[d].estMinutes
    /\ awarded[d]["done"] = 2

\* C17: every successful logHabitSession raises currentStreak by exactly 1,
\* sets maxStreak to the larger of the previous maxStreak and the new streak,
\* and adds the habit score of the tier at the incremented streak to the
\* owner's total; a log of a habit that does not exist fails with "Habit not
\* found" and changes nothing; no step lowers a streak.
C17_HabitLogIncrementsAndScores ==
  [][/\ \A h \in HabitDocIds :
          /\ Succeeded("logHabit", h) =>
               /\ HasHabit(h)
               /\ habits'[h].currentStreak = habits[h].currentStreak + 1
               /\ habits'[h].maxStreak =
                    Max2(habits[h].maxStreak, habits'[h].currentStreak)
               /\ HasUser(habits[h].userId) =>
                    \E tier \in HabitLogInputs :
                      users'[habits[h].userId].totalXp =
                        users[habits[h].userId].totalXp
                        + computeHabitXp(tier, habits'[h].currentStreak)
          /\ Rejected("logHabit", h) =>
               /\ ~HasHabit(h)
               /\ result'.err = "Habit not found"
               /\ habits' = habits
               /\ users' = users
     /\ \A h \in DOMAIN habits :
          /\ habits'[h].currentStreak >= habits[h].currentStreak
          /\ habits'[h].maxStreak >= habits[h].maxStreak]_vars

\* C17 witness: the log that completes the first full week of a streak has
\* just been scored for an existing owner.
C17_Witness ==
  \E h \in DOMAIN habits :
    /\ result = Ok("logHabit", h)
    /\ habits[h].currentStreak = 7
    /\ habits[h].maxStreak = 7
    /\ HasUser(habits[h].userId)
    /\ habitXpSum[habits[h].userId] = HabitRunXp(7)

\* C13: every goal id number returned to an owner has not been returned to
\* that owner before, and is one greater than the largest number among the
\* owner's goal ids stored at the time of the call, also when documents were
\* deleted in between.
C13_AllocatedSuffixFreshAndMaxPlusOne ==
  [][Len(issued') = Len(issued) + 1 =>
       LET new == issued'[Len(issued')]
       IN /\ new.num = MaxNum(GoalIdsOf(goals, new.userId), 0) + 1
          /\ \A i \in DOMAIN issued : issued[i] # new]_vars

\* No two stored documents of one owner in the table carry the same id.
NoSharedId(docs, live(_)) ==
  \A i, j \in DOMAIN docs :
    (i # j /\ live(i) /\ live(j) /\ docs[i].userId = docs[j].userId)
      => docs[i].humanId # docs[j].humanId

C18_UpdateGoalHasNoScoringEffect ==
  [][result'.op = "updateGoal" =>
       /\ users' = users
       /\ activities' = activities
       /\ habits' = habits]_vars

\* C18 witness: a goal of an existing owner who has an activity and a habit
\* has just been patched to completed.
C18_Witness ==
  \E d \in DOMAIN goals :
    /\ result = Ok("updateGoal", d)
    /\ goals[d].status = "completed"
    /\ HasUser(goals[d].userId)
    /\ \E a \in DOMAIN activities : activities[a].userId = goals[d].userId
    /\ \E h \in DOMAIN habits : habits[h].userId = goals[d].userId

\* C19: the handler of the final step of a dialogue leaves no conversation
\* state behind: the interval choice that ends onboarding, the category choice
\* for the last queued organise item, the difficulty-variants reply that ends
\* habit creation.
FinalStep(t) ==
  /\ event'.from = t
  /\ LET state == getState(t)
     IN \/ /\ event'.kind = "callback" /\ event'.data = "SETUP_GUIDE:interval"
           /\ state.flow = "onboarding" /\ state.step = "interval"
        \/ /\ event'.kind = "callback" /\ event'.data = "ORG_CAT"
           /\ state.flow = "organise" /\ state.qIndex + 1 = Len(state.queue)
        \/ /\ event'.kind = "text"
           /\ state.flow = "habit_create" /\ state.step = "variants"

C19_FinalStepClearsState ==
  [][\A t \in Chats : FinalStep(t) => ~HasFlow(getState(t))']_vars

\* C20: the reminder sweep sends its prompt only to a user whose stored
\* conversation state has no flow at that moment, and no step of the sweep
\* changes a stored conversation state.
ReminderSent(t) == sweep[t] = "send" /\ sweep'[t] = "idle"

C20_SweepSparesUsersInFlow ==
  [][\A t \in Chats :
       /\ ReminderSent(t) => ~HasFlow(getState(t))
       /\ sweep'[t] # sweep[t] => settings' = settings]_vars

\* C22: the priority-tag score is the number of upper-case letters among the
\* first five characters; lower-case letters, digits, punctuation and any
\* character after the fifth never count, so it lies in 0..5 ("IiCUp" gives
\* 3) and it adds at most 10 to an organise score.
UpperCaseLetters == {"I", "N", "C", "U", "P", "X", "M"}

Returned(fn) == call.fn = fn /\ call.done

OrganiseXpInputs ==
  { [category |-> "void-filler", horizon |-> "someday", incup |-> <<>>,
     hasGoal |-> FALSE, hasDeadline |-> FALSE, hasEstMinutes |-> FALSE,
     mentalBlock |-> TRUE],
    [category |-> "main-quest", horizon |-> "today", incup |-> <<>>,
     hasGoal |-> TRUE, hasDeadline |-> TRUE, hasEstMinutes |-> TRUE,
     mentalBlock |-> FALSE] }

C22_TagScoreCountsLeadingCapitals ==
  Returned("parseIncupScore") =>
    /\ call.value = Cardinality({i \in DOMAIN call.args :
                                   i <= 5 /\ call.args[i] \in UpperCaseLetters})
    /\ call.value \in 0..5
    /\ call.args = IiCUp => call.value = 3
    /\ \A o \in OrganiseXpInputs :
         computeOrganiseXp([o EXCEPT !.incup = call.args]) - computeOrganiseXp(o)
           \in 0..10

C22_Witness ==
  /\ Returned("parseIncupScore")
  /\ Len(call.args) = 6 /\ \A i \in DOMAIN call.args : call.args[i] = "U"
  /\ call.value = 5

\* C23: a finish is late exactly when there is a deadline and completion is
\* after it; the late penalty is 5% of the base (1.5 x organise score) per
\* hour late, at most 50%; the score is max(1, round(base x (1 - penalty) +
\* block bonus + speed bonus)): organise score 20, two hours late, no block,
\* no timing gives 27, late, no chrysolite; the score is never below 1.
HasDeadline(i) == i.deadline # Unset

MinutesLate(i) ==
  IF HasDeadline(i) /\ i.completedAt > i.deadline
  THEN i.completedAt - i.deadline ELSE 0

\* The penalty in 1200ths: 5% an hour is one 1200th a minute, 50% are 600.
Penalty1200(i) == IF MinutesLate(i) > 600 THEN 600 ELSE MinutesLate(i)

Bonuses(i, late) ==
  (IF i.mentalBlock THEN 10 ELSE 0)
  + (IF i.actualMinutes = Unset \/ i.estMinutes = Unset \/ i.estMinutes <= 0 THEN 0
     ELSE IF 10 * i.actualMinutes <= 8 * i.estMinutes /\ ~late THEN 15
     ELSE IF i.actualMinutes <= i.estMinutes THEN 5
     ELSE 0)

\* x = n / 2400 rounds to the integer r: r - 1/2 <= x < r + 1/2
RoundsTo(n, r) == 2400 * (2 * r - 1) <= 2 * n /\ 2 * n < 2400 * (2 * r + 1)

TwoHoursLate ==
  [organiseXp |-> 20, completedAt |-> 720, deadline |-> DoneDeadline,
   mentalBlock |-> FALSE, actualMinutes |-> Unset, estMinutes |-> Unset]

C23_DoneScoreLatePenalty ==
  Returned("computeDoneXp") =>
    LET i == call.args
        late == HasDeadline(i) /\ i.completedAt > i.deadline
        n == 3 * i.organiseXp * (1200 - Penalty1200(i)) + 2400 * Bonuses(i, late)
    IN /\ call.value.isLate = late
       /\ call.value.doneXp >= 1
       /\ RoundsTo(n, call.value.doneXp) \/ (call.value.doneXp = 1 /\ 2 * n < 2400)
       /\ i = TwoHoursLate =>
            call.value = [doneXp |-> 27, isLate |-> TRUE, chrysolite |-> 0]

C23_Witness ==
  /\ Returned("computeDoneXp")
  /\ call.args.deadline = DoneDeadline /\ call.args.completedAt = 1260
  /\ call.args.organiseXp = 20 /\ ~call.args.mentalBlock
  /\ call.args.actualMinutes = Unset
  /\ call.value = [doneXp |-> 15, isLate |-> TRUE, chrysolite |-> 0]

\* C24: the habit score is round(base x min(2.0, 1 + floor(streak / 7) x 0.1))
\* with bases 5, 10, 20, 35: it never falls when the streak grows, never
\* exceeds twice the base, and is 6 for easy at streak 14.
TierBase(tier) ==
  CASE tier = "easy" -> 5 [] tier = "medium" -> 10
    [] tier = "hard" -> 20 [] tier = "peak" -> 35

\* min(2.0, 1 + floor(streak / 7) x 0.1) in tenths
Bonus10(streak) == IF streak \div 7 >= 10 THEN 20 ELSE 10 + streak \div 7

C24_HabitScoreStreakBonus ==
  Returned("computeHabitXp") =>
    LET tier == call.args.difficulty
        streak == call.args.currentStreak
        n == TierBase(tier) * Bonus10(streak)
    IN /\ 10 * (2 * call.value - 1) <= 2 * n /\ 2 * n < 10 * (2 * call.value + 1)
       /\ call.value <= 2 * TierBase(tier)
       /\ \A shorter \in 0..streak : computeHabitXp(tier, shorter) <= call.value
       /\ (tier = "easy" /\ streak = 14) => call.value = 6

C24_Witness ==
  /\ Returned("computeHabitXp")
  /\ call.args.difficulty = "peak" /\ call.args.currentStreak = 77
  /\ call.value = 70

\* C21: a reply is handled from the stored conversation state alone, whenever
\* and wherever it arrives: it moves the dialogue on from the stored step and
\* keeps the answers stored so far; no reply takes a dialogue back to its
\* first step.
TextReply(t) == event'.from = t /\ event'.kind = "text"

\* The number of guided answers a stored state stands for.
Position(state) ==
  3 * state.areaIndex
  + (CASE state.step = "ideal" -> 0 [] state.step = "current" -> 1
       [] state.step = "obstacle" -> 2 [] OTHER -> 0)

KeepsAnswers(old, new) ==
  \A a \in Areas, q \in DOMAIN NoAnswers :
    old.areaData[a][q] # NoText => new.areaData[a][q] = old.areaData[a][q]

Continues(old, new, text) ==
  CASE old.flow = "gap_analysis" ->
         \/ /\ new.flow = "gap_analysis"
            /\ new.convexUserId = old.convexUserId
            /\ Position(new) = Position(old) + 1
            /\ KeepsAnswers(old, new)
            /\ new.areaData[areaAt(old)][old.step] = text
         \/ /\ Position(old) = 3 * Len(LIFE_AREAS) - 1
            /\ new = intervalState(old.convexUserId)
    [] old.flow = "manual_goals" ->
         new = old \/ new = intervalState(old.convexUserId)
    [] old.flow = "habit_create" ->
         \/ /\ old.step = "name"
            /\ new = [old EXCEPT !.habitName = text, !.step = "lifeArea",
                                 !.waiting4Reply = "true"]
         \/ old.step # "name" /\ new = old
         \/ old.step = "variants" /\ new = NoState
    [] old.flow = "organise" ->
         /\ new.flow = "organise"
         /\ new.queue = old.queue /\ new.qIndex = old.qIndex
         /\ new.step \in {old.step, "incup"}
    [] OTHER -> new = old

PromptOf(step) ==
  CASE step = "ideal" -> "ASK:ideal"
    [] step = "current" -> "ASK:current"
    [] step = "obstacle" -> "ASK:obstacle"
    [] step = "incup" -> "ORG_INCUP"
    [] OTHER -> "ASK:more"

C25_AnswerIsFollowedByNextPrompt ==
  [][\A t \in Chats :
       /\ (/\ TextReply(t)
           /\ getState(t).flow = "gap_analysis"
           /\ getState(t)'.flow = "gap_analysis")
            => PromptOf(getState(t)'.step) \in event'.sent
       /\ (/\ TextReply(t)
           /\ getState(t).flow = "organise"
           /\ getState(t).step = "goal")
            => PromptOf("incup") \in event'.sent]_vars

\* C26: while a reply is awaited, an event that is not an answer and that
\* leaves the dialogue at the step it was at does not send that step's prompt
\* again.
CurrentPrompt(state) ==
  CASE state.flow = "gap_analysis" -> PromptOf(state.step)
    [] state.flow = "organise" /\ state.step = "goal" -> "ASK:goal"
    [] OTHER -> "none"

SameStep(old, new) ==
  /\ new.flow = old.flow /\ new.step = old.step
  /\ new.areaIndex = old.areaIndex /\ new.qIndex = old.qIndex

C26_AwaitedPromptIsNotSentAgain ==
  [][\A t \in Chats :
       (/\ event'.from = t /\ event'.kind # "text"
        /\ getState(t).flow \in {"gap_analysis", "organise"}
        /\ isWaiting(getState(t))
        /\ SameStep(getState(t), getState(t)'))
         => CurrentPrompt(getState(t)) \notin event'.sent]_vars

\* C27: a free text or a button press that arrives when no dialogue is stored,
\* other than a press that starts a dialogue (the setup choices, the organise
\* order), leaves the stored conversation state as it was.
StartsFlow(ev) ==
  ev.kind = "callback"
  /\ ev.data \in {"SETUP_GUIDE:start", "SETUP_GUIDE:manual", "ORG_ORDER"}

C27_NoFlowEventLeavesStateAlone ==
  [][\A t \in Chats :
       (/\ event'.from = t
        /\ event'.kind \in {"text", "callback"}
        /\ ~StartsFlow(event')
        /\ ~HasFlow(getState(t)))
         => getState(t)' = getState(t)]_vars

\* C28: while a dialogue is stored for a user, an inbound message of the user
\* is not processed as a direct command: a forwarded message captures no
\* activity and /habits does not open the habit menu.
C28_ActiveFlowShadowsDirectCommands ==
  [][\A t \in Chats :
       (event'.from = t /\ HasFlow(getState(t)))
         => /\ event'.kind = "forward" => activities' = activities
            /\ (event'.kind = "command" /\ event'.data = "/habits")
                 => event'.sent \cap {"ASK:name", "HABIT_LOG"} = {}]_vars

\* C29: a reply the current step cannot accept leaves the stored state as it
\* was and has the current prompt sent again: a goal pick that is neither the
\* number of a listed goal nor 0, a manual reply without a readable goal line
\* (the answer restates the format), a variants reply without four tiers.
InvalidPick(state, text) ==
  LET idx == parseInt(trim(text), Unset) - 1
  IN /\ ~(idx >= 0 /\ idx + 1 \in DOMAIN state.goals)
     /\ trim(text) # <<"0">>

Unacceptable(state, text) ==
  CASE state.flow = "organise" /\ state.step = "goal" -> InvalidPick(state, text)
    [] state.flow = "manual_goals" -> Len(manualGoals(split(text, "\n"))) = 0
    [] state.flow = "habit_create" /\ state.step = "variants" ->
         Len(split(text, "/")) < 4
    [] OTHER -> FALSE

Reprompts(state) ==
  CASE state.flow = "organise" -> {"ASK:goal"}
    [] state.flow = "manual_goals" -> {"ASK:manual", "WARN:manual"}
    [] state.flow = "habit_create" -> {"ASK:variants"}
    [] OTHER -> {}

C29_RejectedReplyRepeatsPrompt ==
  [][\A t \in Chats :
       (TextReply(t) /\ Unacceptable(getState(t), event'.text))
         => /\ getState(t)' = getState(t)
            /\ event'.sent \cap Reprompts(getState(t)) # {}]_vars

\* C30: the guided onboarding stores the k-th reply under area (k-1) div 3 and
\* question (k-1) mod 3, in the order ideal, current, obstacle; the goals are
\* derived by the 18th reply only, and the state is then the interval step.
Answers(state) ==
  Cardinality({p \in Areas \X DOMAIN NoAnswers : state.areaData[p[1]][p[2]] # NoText})

C30_GuidedRepliesInFixedOrder ==
  [][\A t \in Chats :
       (TextReply(t) /\ getState(t).flow = "gap_analysis")
         => LET old == getState(t)
                new == getState(t)'
            IN /\ old.step \in DOMAIN NoAnswers
               /\ Answers(old) = Position(old)
               /\ IF Position(old) < 3 * Len(LIFE_AREAS) - 1
                  THEN /\ new.flow = "gap_analysis"
                       /\ Position(new) = Position(old) + 1
                       /\ new.areaData =
                            [old.areaData EXCEPT ![areaAt(old)][old.step] = event'.text]
                       /\ goals' = goals
                  ELSE /\ new = intervalState(old.convexUserId)
                       /\ Len(goals') >= Len(goals)]_vars

\* C39: no step lowers a user's total score: a step leaves it as it was or
\* adds a score of at least 1, and every recorded stage score is at least its
\* floor: capture 10, organise 5, done 1, evaluate 5, a habit log 5.
StageFloors(a) ==
  /\ a.captureXp >= 10
  /\ a.organiseXp # Unset => a.organiseXp >= 5
  /\ a.doneXp # Unset => a.doneXp >= 1
  /\ a.evaluateXp # Unset => a.evaluateXp >= 5

C39_TotalScoreNeverDecreases ==
  [][/\ \A u \in DOMAIN users : users'[u].totalXp >= users[u].totalXp
     /\ \A d \in DOMAIN activities' : StageFloors(activities'[d])
     /\ \A h \in DOMAIN habits :
          (Succeeded("logHabit", h) /\ HasUser(habits[h].userId))
            => users'[habits[h].userId].totalXp
                 >= users[habits[h].userId].totalXp + 5]_vars

\* C39 witness: an evaluation has just been scored at the floor, a fifth of
\* the done score being less, and the owner carries all four stage scores.
C39_Witness ==
  \E d \in DOMAIN activities :
    /\ result = Ok("evaluate", d)
    /\ activities[d].evaluateXp = 5
    /\ RoundDiv(activities[d].doneXp, 5) < 5
    /\ HasUser(activities[d].userId)
    /\ users[activities[d].userId].totalXp >= activities[d].totalXp

\* C40: in every state reached each habit has 0 <= currentStreak <= maxStreak,
\* no step lowers either counter, and every log of a habit is counted, two
\* logs of the same habit raising its streak by two.
C40_StreaksOrderedAndNonDecreasing ==
  [][/\ \A h \in DOMAIN habits' :
          /\ 0 <= habits'[h].currentStreak
          /\ habits'[h].currentStreak <= habits'[h].maxStreak
     /\ \A h \in DOMAIN habits :
          /\ habits'[h].currentStreak >= habits[h].currentStreak
          /\ habits'[h].maxStreak >= habits[h].maxStreak
          /\ Succeeded("logHabit", h)
               => habits'[h].currentStreak = habits[h].currentStreak + 1]_vars

\* C40 witness: the same habit has been logged twice, the second log just now.
C40_Witness ==
  \E h \in DOMAIN habits :
    /\ result = Ok("logHabit", h)
    /\ habits[h].currentStreak = 2
    /\ habits[h].maxStreak = 2

\* C38: every life area the wizard submits is one the receiving operation's
\* validator admits: the area of a pressed habit life-area button is admitted
\* by createHabit, and no variants reply is rejected for its life area.
VariantsReply(t) ==
  /\ TextReply(t)
  /\ getState(t).flow = "habit_create"
  /\ getState(t).step = "variants"

C38_WizardLifeAreasAreAdmitted ==
  [][\A t \in Chats :
       /\ (/\ event'.from = t
           /\ event'.kind = "callback"
           /\ event'.data = "ORG_AREA:habit")
            => event'.arg \in HabitLifeAreas
       /\ VariantsReply(t) => result'.err # "ArgumentValidationError"]_vars

\* C33: the variants reply of the habit dialogue, given after the name and
\* the life area, creates exactly one habit, with both streak counters at 0,
\* and ends the dialogue.
C33_VariantsReplyCreatesOneHabit ==
  [][\A t \in Chats :
       VariantsReply(t)
         => /\ Len(habits') = Len(habits) + 1
            /\ habits'[Len(habits')].currentStreak = 0
            /\ habits'[Len(habits')].maxStreak = 0
            /\ getState(t)' = NoState]_vars

\* C37: a button press that belongs to another dialogue than the one stored
\* leaves the stored conversation state as it was: a habit life-area press
\* while a dialogue other than the habit dialogue is active changes nothing.
C37_OtherFlowsChoiceLeavesStateAlone ==
  [][\A t \in Chats :
       (/\ event'.from = t
        /\ event'.kind = "callback"
        /\ event'.data = "ORG_AREA:habit"
        /\ HasFlow(getState(t))
        /\ getState(t).flow # "habit_create")
         => getState(t)' = getState(t)]_vars

\* C31: a manual onboarding reply creates exactly one goal for each line that
\* names one of the six life areas and a goal that is not blank, in the order
\* of the lines, and nothing for any other line; when a goal was created the
\* state becomes the interval step, otherwise no goal is created and the
\* dialogue stays at the manual step.
AreaOfLine(line) ==
  LET name == lowerCase(trim(substring(line, 0, indexOf(line, ":"))))
  IN IF indexOf(line, ":") >= 0 /\ \E a \in Areas : AreaText[a] = name
     THEN CHOOSE a \in Areas : AreaText[a] = name
     ELSE NoString

GoalOfLine(line) == trim(substringFrom(line, indexOf(line, ":") + 1))

GoalLines(text) ==
  SelectSeq(split(text, "\n"),
            LAMBDA line : AreaOfLine(line) # NoString /\ Len(GoalOfLine(line)) > 0)

C31_ManualReplyCreatesOneGoalPerLine ==
  [][\A t \in Chats :
       (TextReply(t) /\ getState(t).flow = "manual_goals")
         => LET lines == GoalLines(event'.text)
            IN IF Len(lines) = 0
               THEN goals' = goals /\ getState(t)' = getState(t)
               ELSE /\ Len(goals') = Len(goals) + Len(lines)
                    /\ \A i \in DOMAIN lines :
                         /\ goals'[Len(goals) + i].lifeArea = AreaOfLine(lines[i])
                         /\ goals'[Len(goals) + i].title = GoalOfLine(lines[i])
                    /\ getState(t)' = intervalState(getState(t).convexUserId)]_vars

\* C34: the string committed by the press of Done has five characters, one
\* per tag, upper case exactly at the places of the selected tags, so its
\* priority-tag score is the number of selected tags.
IsUpperCase(ch) == ch = toUpperCase(ch) /\ ch # toLowerCase(ch)

C34_CommittedTagsScoreTheSelection ==
  Returned("handleOrganizeIncup") =>
    /\ Len(call.value.pendingIncup) = 5
    /\ \A i \in 1..5 :
         IsUpperCase(call.value.pendingIncup[i])
           <=> \E j \in DOMAIN call.value.incupSelected :
                 call.value.incupSelected[j] = INCUP_OPTIONS[i]
    /\ parseIncupScore(call.value.pendingIncup) = Len(call.value.incupSelected)

\* C32: the organise dialogue goes through its steps in order, goal first and
\* the priority tags next, and a choice that belongs to another step than
\* the current one neither records anything nor moves the dialogue: a reply
\* to the goal question moves the dialogue to the tag step, and a life-area
\* press outside the life-area step leaves the stored state as it was.
OrganiseSteps == <<"goal", "incup", "area", "horizon", "type", "category">>

StepAfter(step) ==
  IF \E i \in 1..(Len(OrganiseSteps) - 1) : OrganiseSteps[i] = step
  THEN OrganiseSteps[(CHOOSE i \in 1..(Len(OrganiseSteps) - 1) :
                        OrganiseSteps[i] = step) + 1]
  ELSE step

C32_OrganiseStepsInOrder ==
  [][\A t \in Chats :
       getState(t).flow = "organise" =>
         /\ (TextReply(t) /\ getState(t).step = "goal")
              => getState(t)'.step = StepAfter("goal")
         /\ (/\ event'.from = t
             /\ event'.kind = "callback"
             /\ event'.data = "ORG_AREA:habit"
             /\ getState(t).step # "area")
              => getState(t)' = getState(t)]_vars

\* C36: the organise dialogue over its queue terminates: once started it
\* comes to its end, where the stored state is cleared, provided the user
\* keeps answering.
C36_OrganiseDialogueTerminates ==
  \A t \in Chats :
    (getState(t).flow = "organise") ~> (getState(t).flow # "organise")

\* C35: the reminder sweep isolates the failure of one user: when an awaited
\* call of the processing of one user throws, the processing of every other
\* user stays where it was, and every user in the sweep that has a chat id, a
\* previous timestamp, no dialogue and a captured item receives its reminder
\* unless its own processing throws.
Ready(t) ==
  /\ settings[UserOf(t)].chatId # NoString
  /\ Truthy(settings[UserOf(t)].lastOrganizedAt)
  /\ ~HasFlow(getState(t))
  /\ Len(listCaptured(UserOf(t))) > 0

Failed(t) == event.kind = "error" /\ event.from = t

C35_SweepIsolatesFailures ==
  /\ [][\A t \in SweepIds :
          (event'.kind = "error" /\ event'.from = t)
            => \A u \in SweepIds \ {t} :
                 sweep'[u] = sweep[u] /\ offered'[u] = offered[u]]_vars
  /\ \A u \in SweepIds :
       (InSweep(u) /\ Ready(u)) ~> (Failed(u) \/ "ORG_ORDER" \in offered[u])

C35_Witness ==
  \E t, u \in SweepIds :
    /\ t # u
    /\ Failed(t)
    /\ Ready(u)
    /\ "ORG_ORDER" \in offered[u]
    /\ "ORG_ORDER" \notin offered[t]

====
